---- MODULE Spec2Model ----
(***************************************************************************)
(* Model of the video-window pipeline of services/video_service.py:        *)
(* VideoService._process_video_windows (window calculation, submission to  *)
(* the VideoProcessor actors, ray.get, event combination) and              *)
(* VideoProcessor.process_video_window (the per-window frame loop).        *)
(*                                                                         *)
(* Units.  duration, window_size, overlap, start_time and end_time are in  *)
(* seconds, as in the code.  current_time and an event's ts are kept in    *)
(* frame periods (1/fps seconds): the code's current_time, which starts at *)
(* start_time and grows by 1.0/fps per frame, is  ticks / fps  seconds.    *)
(* All inputs are integers, so int(start_time * fps) is start_time * fps.  *)
(***************************************************************************)
EXTENDS Integers, Sequences, FiniteSets, TLC

VARIABLES
    duration,      \* metadata['duration'] (seconds)
    fps,           \* cap.get(CAP_PROP_FPS) of the video
    video,         \* the decoded frames, frame k at video[k + 1]
    window_size,   \* config.processing.window_seconds
    overlap,       \* config.processing.overlap_seconds
    num_gpus,      \* config.gpu.num_gpus
    pc,            \* position of _process_video_windows
    windows,       \* the list built by the window loop
    start_time,    \* loop variable of the window loop
    window_id,     \* loop variable of the window loop
    queue,         \* per actor: submitted, not yet started window ids (FIFO)
    running,       \* per actor: the process_video_window call in progress
    prev_frame,    \* per actor: self._prev_frame (NoFrame: attribute not set)
    returned,      \* futures that have a value: window id -> result
    results,       \* value of ray.get(futures)
    all_events,    \* the list returned by _process_video_windows
    raised,        \* history: window ids whose call raised inside its try
    accumulated,   \* history: window id -> the events list when it raised
    calls,         \* history: window id -> number of calls started for it
    rules,         \* engine: self.rules, the dictionary in insertion order
    domain_rules,  \* engine: self.domain_rules
    de_pc,         \* position of the detect_events call
    de_args,       \* arguments of the detect_events call
    relevant_rules, \* local list of detect_events
    matches,       \* the list detect_events returns
    match_src,     \* history: the evaluation that produced each match
    thrown,        \* history: the evaluations whose try block raised
    start_rules,   \* history: self.rules when the call started
    start_domain_rules, \* history: self.domain_rules when the call started
    state_files,   \* upload: upload_id -> content of <upload_id>.json
    temp_files,    \* upload: upload_id -> size of <upload_id>.part
    final_files,   \* upload: upload_id -> size of the file at final_path
    in_flight,     \* upload: the chunk requests whose body is being read
    response,      \* upload: the last response sent
    next_upload,   \* upload: the upload_id the next init_upload returns
    accepted,      \* history: upload_id -> bytes of the chunks answered 200
    cancelled,     \* history: upload ids whose cancel was answered 200
    written,       \* history: upload_id -> positions of the file written from a body
    session_store, \* sessions: session_id -> the session stored in Redis
    message_count, \* sessions: number of chat exchanges so far
    exchanges      \* history: session_id -> the exchanges recorded since creation

\* the variables of the video pipeline
pipeVars == << duration, fps, video, window_size, overlap, num_gpus, pc,
               windows, start_time, window_id, queue, running, prev_frame,
               returned, results, all_events, raised, accumulated, calls >>

\* the variables of a detect_events call
callVars == << de_pc, de_args, relevant_rules, matches, match_src, thrown,
               start_rules, start_domain_rules >>

\* the variables of the rules engine
ruleVars == << rules, domain_rules, callVars >>

\* the variables of the upload routes
uploadVars == << state_files, temp_files, final_files, in_flight, response,
                next_upload, accepted, cancelled, written >>

\* the variables of the session service
sessionVars == << session_store, message_count, exchanges >>

vars == << pipeVars, ruleVars, uploadVars, sessionVars >>

(***************************************************************************)
(* Bounds of the model.                                                    *)
(***************************************************************************)
MaxDuration == 3
MaxWindowSeconds == 2
MaxOverlap == 2
MaxFps == 1
MaxGpus == 2
SegMaxDuration == 8
SegMaxWindowSeconds == 4
SegMaxOverlap == 5
AggMaxResults == 3
AggWindowSeconds == 3
MaxVisualEvents == 1
MaxAudioEvents == 1

\* The window loop is cut after this many windows.  A loop that exits does so
\* within duration windows (overlap <= 0 < window_size), so the cut only ends
\* runs of the loop that never exit.
MaxWindows == SegMaxDuration + 1

(***************************************************************************)
(* Program constants.                                                      *)
(***************************************************************************)
global_fps == 6
motion_fps == 16
MotionThreshold == 10
NominalFps == 30
MaxProcessors == 4

\* Pixel intensities a frame can have (a frame is one mean intensity).
FrameValues == {0, 20}
NoFrame == -1

Min(a, b) == IF a < b THEN a ELSE b
Max(a, b) == IF a > b THEN a ELSE b
Abs(a) == IF a < 0 THEN -a ELSE a

\* inference_failed is history: the call logged an error of the detector
Idle == [active |-> FALSE, window_id |-> 0, frame_count |-> 0,
         current_time |-> 0, events |-> << >>, inference_failed |-> FALSE]

(***************************************************************************)
(* _process_video_windows: the window loop.                                *)
(***************************************************************************)
Window(id, s, e) == [window_id |-> id, start_time |-> s, end_time |-> e]

\* while start_time < duration: ... (one iteration)
AppendWindow ==
    /\ pc = "windows"
    /\ start_time < duration
    /\ Len(windows) < MaxWindows
    /\ LET end_time == Min(start_time + window_size, duration)
       IN  /\ windows' = Append(windows, Window(window_id, start_time, end_time))
           /\ start_time' = end_time - overlap
           /\ window_id' = window_id + 1
    /\ UNCHANGED << duration, fps, video, window_size, overlap, num_gpus, pc,
                    queue, running, prev_frame, returned, results, all_events,
                    raised, accumulated, calls >>
    /\ UNCHANGED << ruleVars, uploadVars, sessionVars >>

\* the loop condition is false: fall through to the submission loop
WindowsCalculated ==
    /\ pc = "windows"
    /\ ~(start_time < duration)
    /\ pc' = "submit"
    /\ UNCHANGED << duration, fps, video, window_size, overlap, num_gpus,
                    windows, start_time, window_id, queue, running, prev_frame,
                    returned, results, all_events, raised, accumulated, calls >>
    /\ UNCHANGED << ruleVars, uploadVars, sessionVars >>

(***************************************************************************)
(* VideoProcessor: the actors and process_video_window.                    *)
(***************************************************************************)
\* _init_processors: one actor per GPU, at most MaxProcessors
NumProcessors == Min(MaxProcessors, num_gpus)
Processors == 0 .. NumProcessors - 1

WindowIds == { windows[i].window_id : i \in 1 .. Len(windows) }
WindowOf(w) == windows[w + 1]

\* _get_sample_rate: the frame stride, from the motion against self._prev_frame
SampleRate(prev, frame) ==
    LET motion == prev # NoFrame /\ Abs(frame - prev) > MotionThreshold
        base_rate == IF motion THEN motion_fps ELSE global_fps
    IN  Max(1, NominalFps \div base_rate)

\* a frame on which self.detector(frame) raises
CorruptFrame == 60
DetectorRaises(frame) == frame = CorruptFrame

\* _detect_objects: the detector is a function of the frame; here a dark frame
\* holds no object and any other frame holds one.  When the detector raises,
\* the except block logs the error and returns the empty list.
DetectObjects(frame) ==
    IF DetectorRaises(frame) THEN << >>
    ELSE IF frame > 0 THEN << [class |-> "person", confidence |-> 80] >>
    ELSE << >>

\* _track_objects without ByteTrack (self.tracker is None): a detection becomes
\* the track det_<i>_<int(timestamp)>.  timestamp is in frame periods.
TrackObjects(detections, timestamp, f) ==
    [i \in 1 .. Len(detections) |->
        [track_id |-> << i - 1, timestamp \div f >>,
         class |-> detections[i].class,
         timestamp |-> timestamp]]

\* _generate_events: one event per track
GenerateEvents(tracks, timestamp) ==
    [i \in 1 .. Len(tracks) |->
        [ts |-> timestamp,
         type |-> "object_detection",
         actor |-> [track_id |-> tracks[i].track_id, class |-> tracks[i].class],
         location |-> "frame_center",
         attributes |-> [state |-> "detected", confidence |-> 95]]]

\* the events one sampled frame adds to the window's list
FrameEvents(frame, timestamp, f) ==
    GenerateEvents(TrackObjects(DetectObjects(frame), timestamp, f), timestamp)

\* the dictionary returned at the end of the try block
SuccessResult(win, events, processed) ==
    [window_id |-> win.window_id, start_time |-> win.start_time,
     end_time |-> win.end_time, events |-> events,
     processed_frames |-> processed]

\* the dictionary returned by the except block
ErrorResult(win, events) ==
    [window_id |-> win.window_id, start_time |-> win.start_time,
     end_time |-> win.end_time, events |-> << >>, error |-> "exception"]

HasError(r) == "error" \in DOMAIN r

\* mutant: the clock of every window starts at the beginning of the video
CurrentTimeFromZero(win, f) == 0

\* current_time = start_time before the loop, in frame periods
CurrentTime(win, f) == win.start_time * f

\* mutant: the events of a frame are put in front of the window's list
ExtendFront(events, window_events) == window_events \o events

\* events.extend(window_events)
Extend(events, window_events) == events \o window_events

\* mutant: the actor starts the next call of its mailbox while one is running
WorkerStartNoWait(p) ==
    /\ queue[p] # << >>
    /\ LET w == Head(queue[p])
           start_frame == WindowOf(w).start_time * fps
       IN  /\ running' = [running EXCEPT ![p] =
                  [active |-> TRUE, window_id |-> w, frame_count |-> start_frame,
                   current_time |-> CurrentTime(WindowOf(w), fps),
                   events |-> << >>, inference_failed |-> FALSE]]
           /\ calls' = (w :> (IF w \in DOMAIN calls THEN calls[w] + 1 ELSE 1)) @@ calls
    /\ queue' = [queue EXCEPT ![p] = Tail(queue[p])]
    /\ UNCHANGED << duration, fps, video, window_size, overlap, num_gpus, pc,
                    windows, start_time, window_id, prev_frame, returned,
                    results, all_events, raised, accumulated >>
    /\ UNCHANGED << ruleVars, uploadVars, sessionVars >>

\* an actor takes the next call of its mailbox: the statements before the loop
WorkerStart(p) ==
    /\ ~running[p].active
    /\ queue[p] # << >>
    /\ LET w == Head(queue[p])
           start_frame == WindowOf(w).start_time * fps
       IN  /\ running' = [running EXCEPT ![p] =
                  [active |-> TRUE, window_id |-> w, frame_count |-> start_frame,
                   current_time |-> CurrentTime(WindowOf(w), fps),
                   events |-> << >>, inference_failed |-> FALSE]]
           /\ calls' = (w :> (IF w \in DOMAIN calls THEN calls[w] + 1 ELSE 1)) @@ calls
    /\ queue' = [queue EXCEPT ![p] = Tail(queue[p])]
    /\ UNCHANGED << duration, fps, video, window_size, overlap, num_gpus, pc,
                    windows, start_time, window_id, prev_frame, returned,
                    results, all_events, raised, accumulated >>
    /\ UNCHANGED << ruleVars, uploadVars, sessionVars >>

\* one iteration of the frame loop.  An exception in it ends the call in the
\* except block: raised by the read, before _get_sample_rate has run, or by a
\* later statement of the iteration, after _get_sample_rate has set
\* self._prev_frame.
WorkerFrame(p) ==
    /\ running[p].active
    /\ LET r == running[p]
           win == WindowOf(r.window_id)
           end_frame == win.end_time * fps
           frame == video[r.frame_count + 1]
       IN  /\ r.frame_count < end_frame
           /\ \E exception \in {"none", "read", "later"} :
                IF exception # "none"
                THEN /\ returned' = (r.window_id :> ErrorResult(win, r.events)) @@ returned
                     /\ running' = [running EXCEPT ![p] = Idle]
                     /\ raised' = raised \cup {r.window_id}
                     /\ accumulated' = (r.window_id :> r.events) @@ accumulated
                     /\ prev_frame' = IF exception = "read" THEN prev_frame
                                      ELSE [prev_frame EXCEPT ![p] = frame]
                ELSE LET sample_rate == SampleRate(prev_frame[p], frame)
                         sampled == r.frame_count % sample_rate = 0
                     IN  /\ prev_frame' = [prev_frame EXCEPT ![p] = frame]
                         /\ running' = [running EXCEPT ![p] =
                                [r EXCEPT
                                   !.events = IF sampled
                                              THEN Extend(r.events,
                                                     FrameEvents(frame, r.current_time, fps))
                                              ELSE r.events,
                                   !.inference_failed =
                                       \/ r.inference_failed
                                       \/ sampled /\ DetectorRaises(frame),
                                   !.frame_count = r.frame_count + 1,
                                   !.current_time = r.current_time + 1]]
                         /\ UNCHANGED << returned, raised, accumulated >>
    /\ UNCHANGED << duration, fps, video, window_size, overlap, num_gpus, pc,
                    windows, start_time, window_id, queue, results, all_events,
                    calls >>
    /\ UNCHANGED << ruleVars, uploadVars, sessionVars >>

\* the loop has ended: cap.release() and the result of the try block
WorkerReturn(p) ==
    /\ running[p].active
    /\ LET r == running[p]
           win == WindowOf(r.window_id)
       IN  /\ ~(r.frame_count < win.end_time * fps)
           /\ returned' = (r.window_id :>
                  SuccessResult(win, r.events, r.frame_count - win.start_time * fps))
                  @@ returned
    /\ running' = [running EXCEPT ![p] = Idle]
    /\ UNCHANGED << duration, fps, video, window_size, overlap, num_gpus, pc,
                    windows, start_time, window_id, queue, prev_frame, results,
                    all_events, raised, accumulated, calls >>
    /\ UNCHANGED << ruleVars, uploadVars, sessionVars >>

(***************************************************************************)
(* _process_video_windows: submission, ray.get and the combination.        *)
(***************************************************************************)
RECURSIVE AssignedTo(_, _)
\* the window ids i, in submission order, with i % len(self.processors) = p,
\* among the first n windows
AssignedTo(p, n) ==
    IF n = 0 THEN << >>
    ELSE IF (n - 1) % NumProcessors = p
         THEN Append(AssignedTo(p, n - 1), windows[n].window_id)
         ELSE AssignedTo(p, n - 1)

\* for i, window in enumerate(windows): processor.process_video_window.remote(...)
SubmitWindows ==
    /\ pc = "submit"
    /\ queue' = [p \in Processors |-> AssignedTo(p, Len(windows))]
    /\ pc' = "collect"
    /\ UNCHANGED << duration, fps, video, window_size, overlap, num_gpus,
                    windows, start_time, window_id, running, prev_frame,
                    returned, results, all_events, raised, accumulated, calls >>
    /\ UNCHANGED << ruleVars, uploadVars, sessionVars >>

\* ray.get(futures) returns once every future has its value (an early return
\* on the first value, as ray.wait does, is the mutant)
ReadyAfterFirst ==
    windows = << >> \/ \E w \in WindowIds : w \in DOMAIN returned

ReadyToCollect ==
    \A w \in WindowIds : w \in DOMAIN returned

RECURSIVE GatheredNewestFirst(_)
\* mutant: the value of a later future is put in front of the earlier ones
GatheredNewestFirst(n) ==
    IF n = 0 THEN << >>
    ELSE IF windows[n].window_id \in DOMAIN returned
         THEN << returned[windows[n].window_id] >> \o GatheredNewestFirst(n - 1)
         ELSE GatheredNewestFirst(n - 1)

RECURSIVE Gathered(_)
\* the values of the first n futures, in the order of the list of futures
Gathered(n) ==
    IF n = 0 THEN << >>
    ELSE IF windows[n].window_id \in DOMAIN returned
         THEN Append(Gathered(n - 1), returned[windows[n].window_id])
         ELSE Gathered(n - 1)

\* results = ray.get(futures)
CollectResults ==
    /\ pc = "collect"
    /\ ReadyToCollect
    /\ results' = Gathered(Len(windows))
    /\ pc' = "combine"
    /\ UNCHANGED << duration, fps, video, window_size, overlap, num_gpus,
                    windows, start_time, window_id, queue, running, prev_frame,
                    returned, all_events, raised, accumulated, calls >>
    /\ UNCHANGED << ruleVars, uploadVars, sessionVars >>

\* ray.get(futures) raises while a future has no value (its actor died, its
\* task was lost): the except blocks of _process_video_windows and of
\* process_video log and re-raise
CollectRaises ==
    /\ pc = "collect"
    /\ \E w \in WindowIds : w \notin DOMAIN returned
    /\ pc' = "raised"
    /\ UNCHANGED << duration, fps, video, window_size, overlap, num_gpus,
                    windows, start_time, window_id, queue, running, prev_frame,
                    returned, results, all_events, raised, accumulated, calls >>
    /\ UNCHANGED << ruleVars, uploadVars, sessionVars >>

RECURSIVE Dedup(_)
\* mutant: the combination drops an event equal to an earlier one
Dedup(s) ==
    IF s = << >> THEN << >>
    ELSE LET front == Dedup(SubSeq(s, 1, Len(s) - 1))
             last == s[Len(s)]
         IN  IF \E i \in 1 .. Len(front) : front[i] = last
             THEN front ELSE Append(front, last)

RECURSIVE Flatten(_)
Flatten(res) ==
    IF res = << >> THEN << >>
    ELSE LET r == res[Len(res)]
             front == Flatten(SubSeq(res, 1, Len(res) - 1))
         IN  IF "events" \in DOMAIN r THEN front \o r.events ELSE front

AllEventsDedup(res) == Dedup(Flatten(res))

RECURSIVE AllEventsUntilError(_)
\* mutant: the combination stops at the first result that carries an error
AllEventsUntilError(res) ==
    IF res = << >> THEN << >>
    ELSE IF HasError(Head(res)) THEN << >>
         ELSE Head(res).events \o AllEventsUntilError(Tail(res))

\* all_events = []; for result in results: if 'events' in result: extend
AllEvents(res) == Flatten(res)

CombineEvents ==
    /\ pc = "combine"
    /\ all_events' = AllEvents(results)
    /\ pc' = "done"
    /\ UNCHANGED << duration, fps, video, window_size, overlap, num_gpus,
                    windows, start_time, window_id, queue, running, prev_frame,
                    returned, results, raised, accumulated, calls >>
    /\ UNCHANGED << ruleVars, uploadVars, sessionVars >>

\* the dictionary process_video returns (video_id left out)
ProcessVideoResult ==
    [status |-> "completed", events_count |-> Len(all_events),
     duration |-> duration, fps |-> fps]

\* process_video after _process_video_windows returned: the events are
\* stored, the status becomes 'completed', the result dictionary is returned
ProcessVideoReturns ==
    /\ pc = "done"
    /\ pc' = "completed"
    /\ UNCHANGED << duration, fps, video, window_size, overlap, num_gpus,
                    windows, start_time, window_id, queue, running, prev_frame,
                    returned, results, all_events, raised, accumulated, calls >>
    /\ UNCHANGED << ruleVars, uploadVars, sessionVars >>

(***************************************************************************)
(* The rules engine of services/rules_engine.py: ConfigurableRulesEngine.  *)
(*                                                                         *)
(* Units.  A confidence, a threshold and a score are kept in 1/300: 0.8 is *)
(* Pct(80).  A metric of an event (speed, lighting_quality, ...) is kept   *)
(* in 1/100, so the mean (a + b + c) / 3.0 of three metrics is their sum   *)
(* in 1/300.  A timestamp of an event handed to the engine and the         *)
(* alignment window are in seconds.                                        *)
(***************************************************************************)
Pct(x) == 3 * x

\* Python's None as the value of a numeric key and of a string key
NoneNumber == 0 - 1000
NoneString == "None"

\* event.get(key, default)
Get(event, key, default) == IF key \in DOMAIN event THEN event[key] ELSE default

\* EventRule (description and conditions are never read by the engine)
Rule(id, name, atype, etype, sev, thr) ==
    [rule_id |-> id, name |-> name, analysis_type |-> atype,
     event_type |-> etype, severity |-> sev, confidence_threshold |-> thr,
     enabled |-> TRUE]

\* _load_default_rules: self.rules in insertion order
DefaultRules ==
    << Rule("comp_001", "Human Detection", "comprehensive_analysis",
            "human_presence", "medium", Pct(70)),
       Rule("comp_002", "Object Interaction", "comprehensive_analysis",
            "object_interaction", "medium", Pct(60)),
       Rule("safety_001", "Safety Violation", "safety_investigation",
            "safety_violation", "high", Pct(80)),
       Rule("safety_002", "Emergency Situation", "safety_investigation",
            "emergency_situation", "critical", Pct(90)),
       Rule("perf_001", "Efficiency Pattern", "performance_analysis",
            "efficiency_pattern", "medium", Pct(70)),
       Rule("perf_002", "Performance Issue", "performance_analysis",
            "performance_issue", "high", Pct(75)),
       Rule("pattern_001", "Behavioral Pattern", "pattern_detection",
            "behavioral_pattern", "medium", Pct(70)),
       Rule("pattern_002", "Anomaly Detection", "pattern_detection",
            "anomaly_detection", "high", Pct(80)),
       Rule("creative_001", "Visual Quality", "creative_review",
            "visual_quality", "medium", Pct(60)),
       Rule("creative_002", "Brand Alignment", "creative_review",
            "brand_alignment", "medium", Pct(70)) >>

\* self.domain_rules: keys is the set of its keys, ids the pairs
\* <<domain, event type>> of its lists (the lists are only tested with "in")
DomainList(d, ids) == { << d, t >> : t \in ids }

\* _load_domain_specific_rules
DefaultDomainRules ==
    [keys |-> { "traffic", "workplace", "retail", "sports", "entertainment",
                "education" },
     ids |-> DomainList("traffic", { "traffic_violation", "accident_detection",
                                     "traffic_flow" })
             \cup DomainList("workplace", { "safety_violation",
                                            "efficiency_pattern",
                                            "workflow_analysis" })
             \cup DomainList("retail", { "customer_behavior", "sales_pattern",
                                         "security_incident" })
             \cup DomainList("sports", { "performance_analysis",
                                         "injury_detection",
                                         "tactical_analysis" })
             \cup DomainList("entertainment", { "creative_review",
                                                "audience_reaction",
                                                "production_quality" })
             \cup DomainList("education", { "learning_pattern",
                                            "engagement_analysis",
                                            "behavioral_assessment" })]

\* position of rule_id in the dictionary, 0 when it is not a key
RECURSIVE IndexOf(_, _, _)
IndexOf(rs, id, k) ==
    IF k > Len(rs) THEN 0
    ELSE IF rs[k].rule_id = id THEN k ELSE IndexOf(rs, id, k + 1)

\* self.rules[rule.rule_id] = rule: a known key keeps its position
PutRule(rs, rule) ==
    LET k == IndexOf(rs, rule.rule_id, 1)
    IN  IF k = 0 THEN Append(rs, rule) ELSE [rs EXCEPT ![k] = rule]

\* self.rules[rule_id].enabled = value, when rule_id is a key
SetEnabled(rs, id, value) ==
    LET k == IndexOf(rs, id, 1)
    IN  IF k = 0 THEN rs ELSE [rs EXCEPT ![k].enabled = value]

\* export_rules: the value written for one rule, the fields without rule_id
RuleData(rule) == [f \in DOMAIN rule \ { "rule_id" } |-> rule[f]]

\* export_rules: the configuration dictionary of the current rules; "rules"
\* is a dictionary in insertion order, here the list of its items
ExportRules(rs, dr) ==
    [rules |-> [i \in 1 .. Len(rs) |-> << rs[i].rule_id, RuleData(rs[i]) >>],
     domain_rules |-> dr]

\* mutant: every imported rule is enabled
EventRuleEnabled(rule_id, rule_data) ==
    [rule_id |-> rule_id, name |-> rule_data.name,
     analysis_type |-> rule_data.analysis_type,
     event_type |-> rule_data.event_type, severity |-> rule_data.severity,
     confidence_threshold |-> rule_data.confidence_threshold,
     enabled |-> TRUE]

\* import_rules: the EventRule built from one item of the dictionary
EventRule(rule_id, rule_data) ==
    [rule_id |-> rule_id, name |-> rule_data.name,
     analysis_type |-> rule_data.analysis_type,
     event_type |-> rule_data.event_type, severity |-> rule_data.severity,
     confidence_threshold |-> rule_data.confidence_threshold,
     enabled |-> Get(rule_data, "enabled", TRUE)]

RECURSIVE PutAll(_, _)
PutAll(rs, config_rules) ==
    IF config_rules = << >> THEN rs
    ELSE PutAll(PutRule(rs, Head(config_rules)), Tail(config_rules))

\* import_rules: the rules after self.rules.clear() and the loop
ImportedRules(rules_config) ==
    LET items == Get(rules_config, "rules", << >>)
    IN  PutAll(<< >>, [i \in 1 .. Len(items) |-> EventRule(items[i][1], items[i][2])])

\* import_rules: rules_config.get("domain_rules", {})
ImportedDomainRules(rules_config) ==
    Get(rules_config, "domain_rules", [keys |-> {}, ids |-> {}])

(***************************************************************************)
(* The evaluators.  The result of an evaluator is what came out of its try *)
(* block: raised is TRUE when the block raised, match is the returned      *)
(* EventMatch as a list of one element, empty for None.                    *)
(***************************************************************************)
Returned(m) == [raised |-> FALSE, match |-> m]
Raises == [raised |-> TRUE, match |-> << >>]

\* max(unsafe_indicators.values())
MaxOf(S) == CHOOSE x \in S : \A y \in S : y <= x

\* _detect_safety_violations: the dictionary as a set of <<name, value>>
DetectSafetyViolations(event) ==
    (IF /\ Get(event, "object_class", NoneString) = "person"
        /\ ~Get(event, "has_helmet", TRUE)
     THEN { << "no_helmet", Pct(80) >> } ELSE {})
    \cup
    (IF Get(event, "position", NoneString) = "unsafe"
     THEN { << "unsafe_position", Pct(90) >> } ELSE {})

\* _calculate_efficiency_score
CalculateEfficiencyScore(event) ==
    Get(event, "speed", 50) + Get(event, "accuracy", 50)
        + Get(event, "consistency", 50)

\* _detect_behavioral_patterns
DetectBehavioralPatterns(event) ==
    IF Get(event, "recurring_behavior", FALSE) THEN Pct(80) ELSE 0

\* _assess_visual_quality
AssessVisualQuality(event) ==
    Get(event, "lighting_quality", 50) + Get(event, "composition_quality", 50)
        + Get(event, "color_balance", 50)

\* mutant: a confidence equal to the threshold does not pass
ExceedsThreshold(confidence, rule) == confidence > rule.confidence_threshold

\* the threshold test of lines 266, 278, 286, 293, 300 and 304
MeetsThreshold(confidence, rule) == confidence >= rule.confidence_threshold

\* the EventMatch built by _evaluate_rule
SingleMatch(event, rule, modality, confidence, attributes) ==
    [rule_id |-> rule.rule_id,
     event_type |-> rule.event_type,
     confidence |-> confidence,
     severity |-> rule.severity,
     timestamp |-> Get(event, "timestamp", 0),
     location |-> Get(event, "location", "unknown"),
     attributes |-> attributes,
     evidence |-> [modality |-> modality, original_event |-> event,
                   rule_applied |-> rule.name]]

\* _evaluate_rule.  The one statement of the try block that raises on the
\* events of the model is the comparison of a None confidence with the
\* threshold in the human_presence branch.
EvaluateRule(event, rule, modality) ==
    LET et == rule.event_type
        person == Get(event, "object_class", NoneString) = "person"
        violations == DetectSafetyViolations(event)
        efficiency == CalculateEfficiencyScore(event)
        pattern == DetectBehavioralPatterns(event)
        quality == AssessVisualQuality(event)
        confidence ==
            CASE et = "human_presence" ->
                   IF person THEN Get(event, "confidence", 0) ELSE 0
              [] et = "safety_violation" ->
                   IF violations # {}
                   THEN MaxOf({ v[2] : v \in violations }) ELSE 0
              [] et = "efficiency_pattern" ->
                   IF MeetsThreshold(efficiency, rule) THEN efficiency ELSE 0
              [] et = "behavioral_pattern" ->
                   IF MeetsThreshold(pattern, rule) THEN pattern ELSE 0
              [] et = "visual_quality" ->
                   IF MeetsThreshold(quality, rule) THEN quality ELSE 0
              [] OTHER -> 0
        attributes ==
            CASE et = "human_presence" /\ person
                    /\ MeetsThreshold(confidence, rule) ->
                   [object_class |-> Get(event, "object_class", NoneString),
                    bbox |-> Get(event, "bbox", NoneNumber),
                    track_id |-> Get(event, "track_id", NoneNumber)]
              [] et = "safety_violation" /\ violations # {}
                    /\ MeetsThreshold(confidence, rule) ->
                   [violations |-> violations]
              [] et = "efficiency_pattern" /\ MeetsThreshold(efficiency, rule) ->
                   [efficiency_score |-> efficiency]
              [] et = "behavioral_pattern" /\ MeetsThreshold(pattern, rule) ->
                   [pattern_type |-> "behavioral"]
              [] et = "visual_quality" /\ MeetsThreshold(quality, rule) ->
                   [quality_score |-> quality]
              [] OTHER -> << >>
    IN  IF et = "human_presence" /\ person
           /\ Get(event, "confidence", 0) = NoneNumber
        THEN Raises
        ELSE IF MeetsThreshold(confidence, rule)
             THEN Returned(<< SingleMatch(event, rule, modality, confidence,
                                          attributes) >>)
             ELSE Returned(<< >>)

\* alignment_window of _detect_multi_modal_events (seconds)
AlignmentWindow == 2

\* the velocity threshold of _detect_rapid_movement (pixels per second)
RapidVelocity == 50

\* the event types _detect_multi_modal_events hands to the multi-modal evaluator
CompositeTypes == { "emergency_situation", "performance_issue",
                    "anomaly_detection" }

\* str.lower() on the sound types of the model
Lower(s) == IF s = "Fire Alarm" THEN "fire alarm" ELSE s

\* "alarm" in s, for a lowered sound type of the model
ContainsAlarm(s) == s \in { "alarm", "fire alarm" }

\* any("alarm" in a.get("sound_type", "").lower() for a in audio_events):
\* "true", "false", or "raised" when .lower() is reached on None first
RECURSIVE AlarmSounds(_)
AlarmSounds(audio) ==
    IF audio = << >> THEN "false"
    ELSE LET s == Get(Head(audio), "sound_type", "")
         IN  IF s = NoneString THEN "raised"
             ELSE IF ContainsAlarm(Lower(s)) THEN "true"
             ELSE AlarmSounds(Tail(audio))

\* the EventMatch built by _evaluate_multi_modal_rule
MultiModalMatch(visual_event, audio, rule) ==
    [rule_id |-> rule.rule_id,
     event_type |-> rule.event_type,
     confidence |-> Pct(90),
     severity |-> "critical",
     timestamp |-> Get(visual_event, "timestamp", 0),
     location |-> Get(visual_event, "location", "unknown"),
     attributes |-> [rapid_movement |-> TRUE, alarm_sounds |-> TRUE],
     evidence |-> [modality |-> "multi_modal", visual_event |-> visual_event,
                   audio_events |-> audio]]

\* _evaluate_multi_modal_rule: _detect_rapid_movement raises on a None
\* velocity, the any() on a None sound type
EvaluateMultiModalRule(visual_event, audio, rule) ==
    IF rule.event_type # "emergency_situation" THEN Returned(<< >>)
    ELSE LET velocity == Get(visual_event, "velocity", 0)
         IN  IF velocity = NoneNumber THEN Raises
             ELSE IF AlarmSounds(audio) = "raised" THEN Raises
             ELSE IF velocity > RapidVelocity /\ AlarmSounds(audio) = "true"
                  THEN Returned(<< MultiModalMatch(visual_event, audio,
                                                   rule) >>)
                  ELSE Returned(<< >>)

\* mutant: every audio event counts as aligned
AllAudio(v_event, audio_events) == audio_events

\* the audio events within the alignment window of a visual event
AlignedAudio(v_event, audio_events) ==
    LET v_time == Get(v_event, "timestamp", 0)
        Aligned(a) == Abs(Get(a, "timestamp", 0) - v_time) <= AlignmentWindow
    IN  SelectSeq(audio_events, Aligned)

(***************************************************************************)
(* detect_events.  The loops collect, next to the list of matches, which   *)
(* evaluation produced each match and which evaluations raised: an         *)
(* evaluation is <<modality, i, k>>, event i of the list against entry k   *)
(* of relevant_rules.                                                      *)
(***************************************************************************)
EmptyAcc == [out |-> << >>, src |-> << >>, thrown |-> {}, failed |-> FALSE]

\* mutant: the except block of an evaluator re-raises
PropagateEvaluatorError(acc, evaluation) ==
    [acc EXCEPT !.thrown = @ \cup { evaluation }, !.failed = TRUE]

\* the except block of an evaluator: log, fall through to return None
HandleEvaluatorError(acc, evaluation) ==
    [acc EXCEPT !.thrown = @ \cup { evaluation }]

\* match = evaluator(...); if match: matches.append(match)
Collect(acc, result, evaluation) ==
    IF acc.failed THEN acc
    ELSE IF result.raised THEN HandleEvaluatorError(acc, evaluation)
    ELSE IF Len(result.match) > 0
         THEN [acc EXCEPT !.out = @ \o result.match,
                          !.src = Append(@, evaluation)]
         ELSE acc

\* for event in events: for rule in relevant_rules: (evaluation number n)
RECURSIVE ProcessEvents(_, _, _, _, _)
ProcessEvents(events, rs, modality, n, acc) ==
    IF n >= Len(events) * Len(rs) THEN acc
    ELSE LET i == (n \div Len(rs)) + 1
             k == (n % Len(rs)) + 1
         IN  ProcessEvents(events, rs, modality, n + 1,
                 Collect(acc, EvaluateRule(events[i], rs[k], modality),
                         << modality, i, k >>))

\* _detect_multi_modal_events
RECURSIVE DetectMultiModalEvents(_, _, _, _, _)
DetectMultiModalEvents(visual_events, audio_events, rs, n, acc) ==
    IF n >= Len(visual_events) * Len(rs) THEN acc
    ELSE LET i == (n \div Len(rs)) + 1
             k == (n % Len(rs)) + 1
             aligned_audio == AlignedAudio(visual_events[i], audio_events)
         IN  DetectMultiModalEvents(visual_events, audio_events, rs, n + 1,
                 IF /\ Len(aligned_audio) > 0
                    /\ rs[k].event_type \in CompositeTypes
                 THEN Collect(acc,
                          EvaluateMultiModalRule(visual_events[i],
                                                 aligned_audio, rs[k]),
                          << "multi_modal", i, k >>)
                 ELSE acc)

\* the three loops of detect_events over relevant_rules
RunDetection(visual_events, audio_events, rs) ==
    DetectMultiModalEvents(visual_events, audio_events, rs, 0,
        ProcessEvents(audio_events, rs, "audio", 0,
            ProcessEvents(visual_events, rs, "visual", 0, EmptyAcc)))

\* mutant: the first comprehension without "and rule.enabled"
SelectByTypeAll(rs, atype) ==
    LET Selected(rule) == rule.analysis_type = atype
    IN  SelectSeq(rs, Selected)

\* the first comprehension of detect_events
SelectByType(rs, atype) ==
    LET Selected(rule) == rule.analysis_type = atype /\ rule.enabled
    IN  SelectSeq(rs, Selected)

\* the second comprehension, empty when domain is falsy or not a key
SelectByDomain(rs, dr, domain) ==
    LET Selected(rule) ==
            << domain, rule.event_type >> \in dr.ids /\ rule.enabled
    IN  IF domain # NoneString /\ domain \in dr.keys
        THEN SelectSeq(rs, Selected) ELSE << >>

(***************************************************************************)
(* Inputs of the engine.                                                   *)
(***************************************************************************)
PersonEvent(confidence, timestamp, velocity) ==
    [object_class |-> "person", confidence |-> confidence,
     timestamp |-> timestamp, velocity |-> velocity, has_helmet |-> FALSE,
     location |-> "dock"]

\* an event of the video pipeline, as process_video_window returns it
PipelineEvent == FrameEvents(20, 3, 1)[1]

VisualEventChoices ==
    { PersonEvent(Pct(79), 1, 0),
      PersonEvent(Pct(80), 2, 60),
      PersonEvent(NoneNumber, 1, NoneNumber),
      PipelineEvent }

AudioEvent(timestamp, sound_type) ==
    [timestamp |-> timestamp, type |-> "sound_classification",
     sound_type |-> sound_type]

AudioEventChoices ==
    { AudioEvent(3, "Fire Alarm"),
      AudioEvent(5, "alarm"),
      AudioEvent(2, NoneString),
      [timestamp |-> 2, type |-> "speech_recognition"] }

RECURSIVE ListsOf(_, _)
ListsOf(S, n) ==
    IF n = 0 THEN { << >> }
    ELSE ListsOf(S, n - 1)
         \cup { Append(q, x) : q \in ListsOf(S, n - 1), x \in S }

AnalysisTypeChoices == { "comprehensive_analysis", "safety_investigation" }

DomainChoices == { NoneString, "workplace", "unknown" }

CustomRuleChoices ==
    { Rule("custom_001", "Strict Human", "comprehensive_analysis",
           "human_presence", "high", Pct(80)),
      Rule("custom_002", "Any Anomaly", "safety_investigation",
           "anomaly_detection", "low", 0),
      Rule("custom_003", "Loose Efficiency", "comprehensive_analysis",
           "efficiency_pattern", "low", Pct(50)) }

RuleIdChoices == { "safety_001", "missing" }

\* configurations handed to import_rules: the export of the current rules, a
\* configuration of one disabled rule, a configuration without "domain_rules"
\* whose rule has no "enabled"
ImportChoices ==
    { ExportRules(rules, domain_rules),
      [rules |-> << << "custom_001",
                       RuleData([Rule("custom_001", "Strict Human",
                                      "comprehensive_analysis", "human_presence",
                                      "high", Pct(80)) EXCEPT !.enabled = FALSE]) >> >>,
       domain_rules |-> [keys |-> { "workplace" },
                         ids |-> DomainList("workplace",
                                            { "human_presence" })]],
      [rules |-> << << "custom_002",
                       [name |-> "Any Anomaly",
                        analysis_type |-> "safety_investigation",
                        event_type |-> "anomaly_detection", severity |-> "low",
                        confidence_threshold |-> 0] >> >>] }

NoArgs == [visual_events |-> << >>, audio_events |-> << >>,
           analysis_type |-> "", domain |-> NoneString]

Args(v, a, atype, domain) ==
    [visual_events |-> v, audio_events |-> a, analysis_type |-> atype,
     domain |-> domain]

ArgChoices ==
    { Args(v, a, t, d) : v \in ListsOf(VisualEventChoices, MaxVisualEvents),
                         a \in ListsOf(AudioEventChoices, MaxAudioEvents),
                         t \in AnalysisTypeChoices, d \in DomainChoices }

\* no detect_events call made
NoCall ==
    /\ de_pc = "idle"
    /\ de_args = NoArgs
    /\ relevant_rules = << >>
    /\ matches = << >>
    /\ match_src = << >>
    /\ thrown = {}
    /\ start_rules = << >>
    /\ start_domain_rules = [keys |-> {}, ids |-> {}]

\* the engine after __init__
EngineConstructed ==
    /\ rules = DefaultRules
    /\ domain_rules = DefaultDomainRules
    /\ NoCall

\* the video service constructs no rules engine
NoEngine ==
    /\ rules = << >>
    /\ domain_rules = [keys |-> {}, ids |-> {}]
    /\ NoCall

(***************************************************************************)
(* Operations of the engine.                                               *)
(***************************************************************************)
AddCustomRule(rule) ==
    /\ rules' = PutRule(rules, rule)
    /\ UNCHANGED << domain_rules, callVars, pipeVars, uploadVars, sessionVars >>

EnableRule(rule_id) ==
    /\ rules' = SetEnabled(rules, rule_id, TRUE)
    /\ UNCHANGED << domain_rules, callVars, pipeVars, uploadVars, sessionVars >>

DisableRule(rule_id) ==
    /\ rules' = SetEnabled(rules, rule_id, FALSE)
    /\ UNCHANGED << domain_rules, callVars, pipeVars, uploadVars, sessionVars >>

ImportRules(rules_config) ==
    /\ rules' = ImportedRules(rules_config)
    /\ domain_rules' = ImportedDomainRules(rules_config)
    /\ UNCHANGED << callVars, pipeVars, uploadVars, sessionVars >>

\* the end of the three loops: return matches, or the exception leaves
Finish(acc) ==
    /\ matches' = acc.out
    /\ match_src' = acc.src
    /\ thrown' = acc.thrown
    /\ de_pc' = IF acc.failed THEN "failed" ELSE "returned"

\* detect_events, the whole call
DetectEvents(args) ==
    /\ de_pc = "idle"
    /\ de_args' = args
    /\ start_rules' = rules
    /\ start_domain_rules' = domain_rules
    /\ LET rs == SelectByType(rules, args.analysis_type)
                 \o SelectByDomain(rules, domain_rules, args.domain)
       IN  /\ relevant_rules' = rs
           /\ Finish(RunDetection(args.visual_events, args.audio_events, rs))
    /\ UNCHANGED << rules, domain_rules, pipeVars, uploadVars, sessionVars >>

\* detect_events up to the end of the first comprehension
DetectStart(args) ==
    /\ de_pc = "idle"
    /\ de_args' = args
    /\ start_rules' = rules
    /\ start_domain_rules' = domain_rules
    /\ relevant_rules' = SelectByType(rules, args.analysis_type)
    /\ de_pc' = "type_selected"
    /\ UNCHANGED << rules, domain_rules, matches, match_src, thrown,
                    pipeVars, uploadVars, sessionVars >>

\* detect_events: relevant_rules.extend(...) of the second comprehension
ExtendByDomain ==
    /\ de_pc = "type_selected"
    /\ relevant_rules' =
           relevant_rules \o SelectByDomain(rules, domain_rules, de_args.domain)
    /\ de_pc' = "selected"
    /\ UNCHANGED << rules, domain_rules, de_args, matches, match_src, thrown,
                    start_rules, start_domain_rules, pipeVars, uploadVars, sessionVars >>

\* detect_events: the three loops and the return
EvaluateRelevant ==
    /\ de_pc = "selected"
    /\ Finish(RunDetection(de_args.visual_events, de_args.audio_events,
                           relevant_rules))
    /\ UNCHANGED << rules, domain_rules, de_args, relevant_rules, start_rules,
                    start_domain_rules, pipeVars, uploadVars, sessionVars >>

\* one call of a mutating operation
Mutate ==
    \/ \E rule \in CustomRuleChoices : AddCustomRule(rule)
    \/ \E rule_id \in RuleIdChoices : EnableRule(rule_id)
    \/ \E rule_id \in RuleIdChoices : DisableRule(rule_id)
    \/ \E rules_config \in ImportChoices : ImportRules(rules_config)

(***************************************************************************)
(* routes/upload_routes.py: the resumable upload of a file in chunks.      *)
(* The state of an upload is the file <upload_id>.json, its bytes go to    *)
(* the file <upload_id>.part.  Requests are served concurrently: the       *)
(* handler of a chunk loads the state, reads the body of the request from  *)
(* the network into the temp file, and only then merges its range into the *)
(* state it loaded and saves it, so other requests are served in between.  *)
(* The other handlers do no network input between their load and their     *)
(* last write and are taken as one step.  Failures of the file system      *)
(* (IOError, OSError) are not part of the model.                           *)
(***************************************************************************)
\* Config.MAX_CONTENT_LENGTH, in bytes
MaxContentLength == 3
\* upload sessions created by init_upload
MaxUploads == 1
\* chunk requests being served at the same time
MaxInFlight == 2

\* an upload_id that init_upload never returned
UnknownUpload == 0
UploadIds == 1 .. MaxUploads
NoHeader == [kind |-> "none"]

\* the Content-Range header of a request: absent, not matched by RANGE_RE,
\* or matched (RANGE_RE.match looks at the beginning of the value only, so
\* any text may follow the total)
HeaderChoices ==
    { NoHeader, [kind |-> "nomatch"] } \cup
    { [kind |-> "match", start |-> s, end |-> e, total |-> t] :
          s \in 0 .. MaxContentLength - 1, e \in 0 .. MaxContentLength - 1,
          t \in MaxContentLength - 1 .. MaxContentLength }

FilenameChoices == { "", "notes.txt", "clip.mp4" }
\* Config.ALLOWED_EXTENSIONS: it holds mp4 (websocket_status_check.py checks
\* that it does); no extension of the other file names is in it
ALLOWED_EXTENSIONS == { "mp4" }

\* filename.rsplit('.', 1)[-1].lower() if '.' in filename else ''
FileExt(filename) ==
    CASE filename = "notes.txt" -> "txt"
      [] filename = "clip.mp4" -> "mp4"
      [] OTHER -> ""

\* what load_state returns when there is no state file
NoState == [upload_id |-> UnknownUpload]

\* load_state: the content of the state file, None when there is no file
LoadState(upload_id) ==
    IF upload_id \in DOMAIN state_files THEN state_files[upload_id] ELSE NoState

\* sorted(ranges, key=lambda x: x[0]): stable, by start only
RECURSIVE SortedByStart(_)
SortedByStart(ranges) ==
    IF ranges = << >> THEN << >>
    ELSE LET rest == SortedByStart(SubSeq(ranges, 1, Len(ranges) - 1))
             x == ranges[Len(ranges)]
             k == Cardinality({ i \in 1 .. Len(rest) : rest[i][1] <= x[1] })
         IN  SubSeq(rest, 1, k) \o << x >> \o SubSeq(rest, k + 1, Len(rest))

\* the test of the loop of merge_ranges: overlapping or adjacent
OverlapsOrAdjacent(last, start) == start <= last[2] + 1

\* the loop of merge_ranges over ranges[i ..]
RECURSIVE MergeLoop(_, _, _)
MergeLoop(merged, ranges, i) ==
    IF i > Len(ranges) THEN merged
    ELSE LET start == ranges[i][1]
             end == ranges[i][2]
             last == merged[Len(merged)]
         IN  IF OverlapsOrAdjacent(last, start)
             THEN MergeLoop([merged EXCEPT ![Len(merged)] =
                                 << last[1], Max(last[2], end) >>], ranges, i + 1)
             ELSE MergeLoop(Append(merged, << start, end >>), ranges, i + 1)

\* merge_ranges
MergeRanges(ranges) ==
    IF ranges = << >> THEN << >>
    ELSE LET sorted == SortedByStart(ranges)
         IN  MergeLoop(<< sorted[1] >>, sorted, 2)

\* is_complete_upload
IsCompleteUpload(received_ranges, total_size) ==
    IF total_size = 0 THEN FALSE
    ELSE LET merged == MergeRanges(received_ranges)
         IN  /\ Len(merged) = 1
             /\ merged[1][1] = 0
             /\ merged[1][2] = total_size - 1

RECURSIVE SumRanges(_, _)
SumRanges(ranges, i) ==
    IF i > Len(ranges) THEN 0
    ELSE ranges[i][2] - ranges[i][1] + 1 + SumRanges(ranges, i + 1)

\* total_received = sum(r[1] - r[0] + 1 for r in state["received_ranges"])
TotalReceived(state) == SumRanges(state.received_ranges, 1)

\* progress, in whole percent
Progress(state) ==
    IF state.total_size > 0
    THEN (TotalReceived(state) * 100) \div state.total_size
    ELSE 0

\* what a handler sends back: the status code
Respond(op, upload_id, status) ==
    response' = [op |-> op, upload_id |-> upload_id, status |-> status]

\* the checks of init_upload, in their order
InitStatus(filename, size) ==
    IF filename = "" THEN 400
    ELSE IF FileExt(filename) \notin ALLOWED_EXTENSIONS THEN 400
    ELSE IF size <= 0 THEN 400
    ELSE IF size > MaxContentLength THEN 413
    ELSE 200

\* init_upload: a new upload_id, the temp file truncated to total_size and
\* the state with no range
InitUpload(filename, size) ==
    LET status == InitStatus(filename, size)
        upload_id == next_upload
    IN  IF status # 200
        THEN /\ Respond("init", UnknownUpload, status)
             /\ UNCHANGED << state_files, temp_files, final_files, in_flight,
                             accepted, cancelled, written, next_upload,
                             pipeVars, ruleVars, sessionVars >>
        ELSE /\ next_upload <= MaxUploads
             /\ next_upload' = next_upload + 1
             /\ temp_files' = (upload_id :> size) @@ temp_files
             /\ state_files' = (upload_id :> [total_size |-> size,
                                              received_ranges |-> << >>])
                                   @@ state_files
             /\ Respond("init", upload_id, 200)
             /\ UNCHANGED << final_files, in_flight, accepted, cancelled,
                             written, pipeVars, ruleVars, sessionVars >>

\* mutant: the range is not compared with the total
ChunkStatusNoBound(state, header) ==
    IF state = NoState THEN 404
    ELSE IF header.kind = "none" THEN 411
    ELSE IF header.kind = "nomatch" THEN 400
    ELSE IF header.start > header.end THEN 400
    ELSE IF state.total_size # 0 /\ state.total_size # header.total THEN 409
    ELSE 200

\* the checks of upload_chunk, in their order
ChunkStatus(state, header) ==
    IF state = NoState THEN 404
    ELSE IF header.kind = "none" THEN 411
    ELSE IF header.kind = "nomatch" THEN 400
    ELSE IF header.start > header.end THEN 400
    ELSE IF state.total_size # 0 /\ state.total_size # header.total THEN 409
    ELSE IF header.end >= header.total THEN 400
    ELSE 200

\* upload_chunk up to the reading of the body: the state is loaded and the
\* header checked; a rejected request is answered at once.  Requests in
\* flight that loaded the same state for the same range are not told apart.
UploadChunkReceive(upload_id, header) ==
    /\ LET state == LoadState(upload_id)
           status == ChunkStatus(state, header)
       IN  IF status # 200
           THEN /\ Respond("chunk", upload_id, status)
                /\ UNCHANGED in_flight
           ELSE /\ Cardinality(in_flight) < MaxInFlight
                /\ in_flight' = in_flight \cup
                       { [upload_id |-> upload_id, start |-> header.start,
                          end |-> header.end, total |-> header.total,
                          state |-> state] }
                /\ UNCHANGED response
    /\ UNCHANGED << state_files, temp_files, final_files, accepted, cancelled,
                    written, next_upload, pipeVars, ruleVars, sessionVars >>

\* expected_bytes = end - start + 1
ExpectedBytes(r) == r.end - r.start + 1

\* the size of a file of size bytes after f.seek(start) and the write of
\* bytes_written bytes
SizeAfterWrite(size, start, bytes_written) ==
    IF bytes_written = 0 THEN size ELSE Max(size, start + bytes_written)

\* upload_chunk from the write of the body: the bytes_written bytes that the
\* stream gives before it ends go to the temp file ("r+b" if it exists, else
\* "wb"), the range is merged into the state that was loaded, and that state
\* is saved
UploadChunkStore(r, bytes_written) ==
    /\ r \in in_flight
    /\ bytes_written \in 0 .. ExpectedBytes(r)
    /\ LET upload_id == r.upload_id
           state == [r.state EXCEPT !.received_ranges =
                        MergeRanges(r.state.received_ranges \o << << r.start, r.end >> >>)]
           exists == upload_id \in DOMAIN temp_files
           body == r.start .. r.start + bytes_written - 1
       IN  /\ temp_files' =
                  (upload_id :> SizeAfterWrite(IF exists THEN temp_files[upload_id] ELSE 0,
                                               r.start, bytes_written)) @@ temp_files
           /\ written' = [written EXCEPT ![upload_id] =
                              IF exists THEN @ \cup body ELSE body]
           /\ state_files' = (upload_id :> state) @@ state_files
           /\ accepted' = [accepted EXCEPT ![upload_id] = @ \cup (r.start .. r.end)]
           /\ Respond("chunk", upload_id, 200)
    /\ in_flight' = in_flight \ { r }
    /\ UNCHANGED << final_files, cancelled, next_upload, pipeVars, ruleVars, sessionVars >>

\* upload_status
UploadStatus(upload_id) ==
    /\ LET state == LoadState(upload_id)
       IN  IF state = NoState
           THEN Respond("status", upload_id, 404)
           ELSE Respond("status", upload_id, 200)
    /\ UNCHANGED << state_files, temp_files, final_files, in_flight, accepted,
                    cancelled, written, next_upload, pipeVars, ruleVars, sessionVars >>

\* the checks of complete_upload, in their order
CompleteStatus(upload_id) ==
    LET state == LoadState(upload_id)
    IN  IF state = NoState THEN 404
        ELSE IF ~IsCompleteUpload(state.received_ranges, state.total_size) THEN 409
        ELSE IF upload_id \notin DOMAIN temp_files THEN 404
        ELSE IF temp_files[upload_id] # state.total_size THEN 409
        ELSE 200

\* a function without the argument x
Without(f, x) == [y \in DOMAIN f \ {x} |-> f[y]]

\* complete_upload: os.replace of the temp file to the final path, then the
\* state file is removed
CompleteUpload(upload_id) ==
    LET status == CompleteStatus(upload_id)
    IN  /\ Respond("complete", upload_id, status)
        /\ IF status # 200
           THEN UNCHANGED << state_files, temp_files, final_files >>
           ELSE /\ final_files' = (upload_id :> temp_files[upload_id]) @@ final_files
                /\ temp_files' = Without(temp_files, upload_id)
                /\ state_files' = Without(state_files, upload_id)
        /\ UNCHANGED << in_flight, accepted, cancelled, written, next_upload,
                        pipeVars, ruleVars, sessionVars >>

\* cancel_upload: the temp file and the state file are removed
CancelUpload(upload_id) ==
    LET state == LoadState(upload_id)
    IN  /\ IF state = NoState
           THEN /\ Respond("cancel", upload_id, 404)
                /\ UNCHANGED << state_files, temp_files, cancelled >>
           ELSE /\ temp_files' = Without(temp_files, upload_id)
                /\ state_files' = Without(state_files, upload_id)
                /\ cancelled' = cancelled \cup { upload_id }
                /\ Respond("cancel", upload_id, 200)
        /\ UNCHANGED << final_files, in_flight, accepted, written, next_upload,
                        pipeVars, ruleVars, sessionVars >>

\* the upload folder before any request
NoUploads ==
    /\ state_files = << >>
    /\ temp_files = << >>
    /\ final_files = << >>
    /\ in_flight = {}
    /\ response = [op |-> "none", upload_id |-> UnknownUpload, status |-> 0]
    /\ accepted = [upload_id \in UploadIds |-> {}]
    /\ cancelled = {}
    /\ written = [upload_id \in UploadIds |-> {}]
    /\ next_upload = 1

(***************************************************************************)
(* SessionService and the chat handler of the app.  A session is stored in *)
(* Redis as JSON under session:<session_id>; of its fields the model keeps *)
(* the context.  An exchange is known by its number.                       *)
(***************************************************************************)
\* self.max_context_length, 50 in the source, scaled
MaxContextLength == 3
MaxMessages == 5

SessionIds == { "s1", "s2" }
SessionIdChoices == SessionIds \cup { "unknown" }

\* the entry of the n-th exchange: user message and assistant response
ContextEntry(n) == [user |-> n, assistant |-> n]

\* get_session: the stored session, None when there is none
NoSession == [session_id |-> NoneString]
GetSession(session_id) ==
    IF session_id \in DOMAIN session_store
    THEN session_store[session_id] ELSE NoSession

\* context[-n:]
LastEntries(context, n) ==
    IF Len(context) > n
    THEN SubSeq(context, Len(context) - n + 1, Len(context)) ELSE context

\* create_session: an existing session is returned as it is
CreateSession(session_id) ==
    /\ session_id \in SessionIds
    /\ GetSession(session_id) = NoSession
    /\ session_store' = (session_id :> [session_id |-> session_id, context |-> << >>])
                            @@ session_store
    /\ exchanges' = [exchanges EXCEPT ![session_id] = << >>]
    /\ UNCHANGED << message_count, pipeVars, ruleVars, uploadVars >>

\* add_message_to_context: append, cut to the last max_context_length
\* entries, update_session
AddMessageToContext(session_id) ==
    /\ message_count < MaxMessages
    /\ message_count' = message_count + 1
    /\ LET session == GetSession(session_id)
           entry == ContextEntry(message_count + 1)
       IN  IF session = NoSession
           THEN UNCHANGED << session_store, exchanges >>
           ELSE /\ session_store' = [session_store EXCEPT ![session_id].context =
                       LastEntries(Append(session.context, entry), MaxContextLength)]
                /\ exchanges' = [exchanges EXCEPT ![session_id] = Append(@, entry)]
    /\ UNCHANGED << pipeVars, ruleVars, uploadVars >>

\* _process_chat_message_remote: the query is answered, the exchange is
\* appended to the context, update_session
ProcessChatMessageRemote(session_id) ==
    /\ message_count < MaxMessages
    /\ message_count' = message_count + 1
    /\ LET session == GetSession(session_id)
           entry == ContextEntry(message_count + 1)
       IN  IF session = NoSession
           THEN UNCHANGED << session_store, exchanges >>
           ELSE /\ session_store' = [session_store EXCEPT ![session_id].context =
                       Append(session.context, entry)]
                /\ exchanges' = [exchanges EXCEPT ![session_id] = Append(@, entry)]
    /\ UNCHANGED << pipeVars, ruleVars, uploadVars >>

\* cleanup_session: the key is deleted
CleanupSession(session_id) ==
    /\ session_id \in DOMAIN session_store
    /\ session_store' = Without(session_store, session_id)
    /\ UNCHANGED << message_count, exchanges, pipeVars, ruleVars, uploadVars >>

\* Redis before any session was created
NoSessions ==
    /\ session_store = << >>
    /\ message_count = 0
    /\ exchanges = [session_id \in SessionIds |-> << >>]

(***************************************************************************)
(* Initial states.                                                         *)
(***************************************************************************)

InitService(cfg, f, g, v) ==
    /\ duration = cfg[1]
    /\ window_size = cfg[2]
    /\ overlap = cfg[3]
    /\ fps = f
    /\ num_gpus = g
    /\ video = v
    /\ pc = "windows"
    /\ windows = << >>
    /\ start_time = 0
    /\ window_id = 0
    /\ queue = [p \in Processors |-> << >>]
    /\ running = [p \in Processors |-> Idle]
    /\ prev_frame = [p \in Processors |-> NoFrame]
    /\ returned = << >>
    /\ results = << >>
    /\ all_events = << >>
    /\ raised = {}
    /\ accumulated = << >>
    /\ calls = << >>

\* The examples of the specification's section 8.
SpecExamples == { <<62, 20, 2>>, <<100, 20, 20>>, <<100, 20, 25>> }

SegConfigs ==
    ((0 .. SegMaxDuration) \X (1 .. SegMaxWindowSeconds) \X (0 .. SegMaxOverlap))
        \cup SpecExamples

InitSeg ==
    /\ \E cfg \in SegConfigs : InitService(cfg, 1, 1, << >>)
    /\ NoEngine
    /\ NoUploads
    /\ NoSessions

NextSeg == AppendWindow \/ WindowsCalculated

SpecSeg == InitSeg /\ [][NextSeg]_vars

Configs == (0 .. MaxDuration) \X (1 .. MaxWindowSeconds) \X (0 .. MaxOverlap)

Init ==
    /\ \E cfg \in Configs, f \in 1 .. MaxFps, g \in 1 .. MaxGpus :
          \E v \in [1 .. cfg[1] * f -> FrameValues] : InitService(cfg, f, g, v)
    /\ NoEngine
    /\ NoUploads
    /\ NoSessions

Next ==
    \/ AppendWindow
    \/ WindowsCalculated
    \/ SubmitWindows
    \/ pc = "collect" /\ \E p \in Processors : WorkerStart(p)
    \/ pc = "collect" /\ \E p \in Processors : WorkerFrame(p)
    \/ pc = "collect" /\ \E p \in Processors : WorkerReturn(p)
    \/ CollectResults
    \/ CollectRaises
    \/ CombineEvents
    \/ ProcessVideoReturns

Spec == Init /\ [][Next]_vars

(***************************************************************************)
(* The combination of lines 477-483 applied to any list of window results. *)
(***************************************************************************)
\* an event as _generate_events builds it for a frame at time t (fps = 1)
AggEvent(t) == FrameEvents(20, t, 1)[1]

\* window i of the list: window_size AggWindowSeconds, consecutive windows one
\* second apart (overlap = AggWindowSeconds - 1)
AggWindow(i) == Window(i - 1, i - 1, i - 1 + AggWindowSeconds)

RECURSIVE IncreasingLists(_, _)
\* the event lists a frame loop over the frames lo .. hi - 1 can build: the
\* events of any subset of the frames, in frame order
IncreasingLists(lo, hi) ==
    IF lo >= hi THEN { << >> }
    ELSE LET rest == IncreasingLists(lo + 1, hi)
         IN  rest \cup { << AggEvent(lo) >> \o q : q \in rest }

\* the results process_video_window can return for window i: the events of the
\* try block, or the empty list with an error
AggResultsFor(i) ==
    LET win == AggWindow(i)
    IN  { SuccessResult(win, ev, AggWindowSeconds) :
             ev \in IncreasingLists(win.start_time, win.end_time) }
            \cup { ErrorResult(win, << >>) }

RECURSIVE AggResultLists(_)
AggResultLists(n) ==
    IF n = 0 THEN { << >> }
    ELSE { Append(q, r) : q \in AggResultLists(n - 1), r \in AggResultsFor(n) }

InitAgg ==
    /\ \E n \in 0 .. AggMaxResults :
          /\ results \in AggResultLists(n)
          /\ windows = [i \in 1 .. n |-> AggWindow(i)]
          /\ returned = [w \in 0 .. n - 1 |-> results[w + 1]]
          /\ duration = IF n = 0 THEN 0 ELSE n - 1 + AggWindowSeconds
          /\ window_id = n
          /\ start_time = n
    /\ pc = "combine"
    /\ window_size = AggWindowSeconds /\ overlap = AggWindowSeconds - 1
    /\ fps = 1 /\ num_gpus = 1 /\ video = << >>
    /\ queue = [p \in Processors |-> << >>]
    /\ running = [p \in Processors |-> Idle]
    /\ prev_frame = [p \in Processors |-> NoFrame]
    /\ all_events = << >>
    /\ raised = {} /\ accumulated = << >> /\ calls = << >>
    /\ NoEngine
    /\ NoUploads
    /\ NoSessions

NextAgg == CombineEvents

SpecAgg == InitAgg /\ [][NextAgg]_vars

(***************************************************************************)
(* The specifications of the rules engine.                                 *)
(***************************************************************************)
\* the pipeline is not running while the engine is exercised
InitRules ==
    /\ InitService(<< 1, 1, 0 >>, 1, 1, << 0 >>)
    /\ EngineConstructed
    /\ NoUploads
    /\ NoSessions

\* One thread: operations on the rules, then one detect_events call.
NextRules ==
    \/ de_pc = "idle" /\ Mutate
    \/ de_pc = "idle" /\ \E args \in ArgChoices : DetectEvents(args)

SpecRules == InitRules /\ [][NextRules]_vars

\* Two threads: a detect_events call on the constructed engine, and
\* operations on the rules while the call is between its statements.
NextRulesConcurrent ==
    \/ de_pc = "idle" /\ \E args \in ArgChoices : DetectStart(args)
    \/ de_pc \in { "type_selected", "selected" } /\ Mutate
    \/ ExtendByDomain
    \/ EvaluateRelevant

SpecRulesConcurrent == InitRules /\ [][NextRulesConcurrent]_vars

\* Calls of detect_events with events that follow the Event schema of the
\* pipeline (time under the key ts) next to events with the key timestamp,
\* several audio events per call, an emergency rule of a severity other
\* than critical, and a domain list that names emergency_situation.
MmMaxVisual == 1
MmMaxAudio == 2

\* an audio event with the keys of the Event schema
SchemaAudioEvent(ts, sound_type) ==
    [ts |-> ts, type |-> "sound_classification", sound_type |-> sound_type]

MmVisualChoices ==
    { PipelineEvent,
      PersonEvent(Pct(80), 2, 60),
      [PipelineEvent EXCEPT !.ts = 8] }

MmAudioChoices ==
    { AudioEvent(3, "Fire Alarm"),
      AudioEvent(4, "alarm"),
      AudioEvent(5, "alarm"),
      SchemaAudioEvent(3, "alarm"),
      SchemaAudioEvent(9, "alarm") }

MmArgChoices ==
    { Args(v, a, "safety_investigation", d) :
          v \in ListsOf(MmVisualChoices, MmMaxVisual),
          a \in ListsOf(MmAudioChoices, MmMaxAudio),
          d \in { NoneString, "workplace" } }

\* an emergency rule of a site, of severity high
SiteEmergencyRule ==
    Rule("custom_004", "Site Evacuation", "safety_investigation",
         "emergency_situation", "high", Pct(90))

\* the current rules with a workplace list that names emergency_situation
EmergencyDomainConfig ==
    [rules |-> ExportRules(rules, domain_rules).rules,
     domain_rules |-> [keys |-> { "workplace" },
                       ids |-> DomainList("workplace",
                                          { "emergency_situation" })]]

\* One thread: add_custom_rule and import_rules, then one detect_events call.
NextMultiModal ==
    \/ de_pc = "idle" /\ AddCustomRule(SiteEmergencyRule)
    \/ de_pc = "idle" /\ ImportRules(EmergencyDomainConfig)
    \/ de_pc = "idle" /\ \E args \in MmArgChoices : DetectEvents(args)

SpecMultiModal == InitRules /\ [][NextMultiModal]_vars

\* A video of few frames whose frames take three levels, so that two
\* consecutive frames can both hold an object and differ by more than the
\* motion threshold; one actor, no overlap.
FrMaxFrames == 4
FrameLevels == FrameValues \cup {40}
FrameConfigs ==
    { c \in (1 .. FrMaxFrames) \X (1 .. FrMaxFrames) \X (1 .. FrMaxFrames) :
          c[1] * c[2] <= FrMaxFrames /\ c[3] <= c[1] }

InitFrames ==
    /\ \E c \in FrameConfigs :
          \E v \in [1 .. c[1] * c[2] -> FrameLevels] :
              InitService(<< c[1], c[3], 0 >>, c[2], 1, v)
    /\ NoEngine
    /\ NoUploads
    /\ NoSessions

SpecFrames == InitFrames /\ [][Next]_vars

\* Videos with frames on which the detector raises; one actor, no overlap.
InfMaxFrames == 3
InferenceLevels == FrameValues \cup { CorruptFrame }
InferenceConfigs ==
    { c \in (1 .. InfMaxFrames) \X (1 .. InfMaxFrames) \X (1 .. InfMaxFrames) :
          c[1] * c[2] <= InfMaxFrames /\ c[3] <= c[1] }

InitInference ==
    /\ \E c \in InferenceConfigs :
          \E v \in [1 .. c[1] * c[2] -> InferenceLevels] :
              InitService(<< c[1], c[3], 0 >>, c[2], 1, v)
    /\ NoEngine
    /\ NoUploads
    /\ NoSessions

SpecInference == InitInference /\ [][Next]_vars

\* the requests of the clients of the upload routes, served concurrently
UploadIdChoices == UploadIds \cup { UnknownUpload }
SizeChoices == { 0 } \cup (MaxContentLength - 1 .. MaxContentLength + 1)

InitUploads ==
    InitService(<< 1, 1, 0 >>, 1, 1, << 0 >>) /\ NoEngine /\ NoUploads /\ NoSessions

NextUploads ==
    \/ \E filename \in FilenameChoices, size \in SizeChoices :
          InitUpload(filename, size)
    \/ \E upload_id \in UploadIdChoices, header \in HeaderChoices :
          UploadChunkReceive(upload_id, header)
    \/ \E r \in in_flight : UploadChunkStore(r, ExpectedBytes(r))
    \/ \E upload_id \in UploadIdChoices : UploadStatus(upload_id)
    \/ \E upload_id \in UploadIdChoices : CompleteUpload(upload_id)
    \/ \E upload_id \in UploadIdChoices : CancelUpload(upload_id)

SpecUploads == InitUploads /\ [][NextUploads]_vars

\* the same requests sent by one client that waits for each response
NextUploadsSequential ==
    \/ in_flight = {} /\ \E filename \in FilenameChoices, size \in SizeChoices :
          InitUpload(filename, size)
    \/ in_flight = {} /\ \E upload_id \in UploadIdChoices, header \in HeaderChoices :
          UploadChunkReceive(upload_id, header)
    \/ \E r \in in_flight : UploadChunkStore(r, ExpectedBytes(r))
    \/ in_flight = {} /\ \E upload_id \in UploadIdChoices : UploadStatus(upload_id)
    \/ in_flight = {} /\ \E upload_id \in UploadIdChoices : CompleteUpload(upload_id)
    \/ in_flight = {} /\ \E upload_id \in UploadIdChoices : CancelUpload(upload_id)

SpecUploadsSequential == InitUploads /\ [][NextUploadsSequential]_vars

\* one client that waits for each response and whose request bodies may end
\* before the declared range is filled
NextUploadBodies ==
    \/ in_flight = {} /\ \E filename \in FilenameChoices, size \in SizeChoices :
          InitUpload(filename, size)
    \/ in_flight = {} /\ \E upload_id \in UploadIdChoices, header \in HeaderChoices :
          UploadChunkReceive(upload_id, header)
    \/ \E r \in in_flight : \E bytes_written \in 0 .. ExpectedBytes(r) :
          UploadChunkStore(r, bytes_written)
    \/ in_flight = {} /\ \E upload_id \in UploadIdChoices : UploadStatus(upload_id)
    \/ in_flight = {} /\ \E upload_id \in UploadIdChoices : CompleteUpload(upload_id)
    \/ in_flight = {} /\ \E upload_id \in UploadIdChoices : CancelUpload(upload_id)

SpecUploadBodies == InitUploads /\ [][NextUploadBodies]_vars

\* chat exchanges on sessions, recorded by either path
InitSessions ==
    InitService(<< 1, 1, 0 >>, 1, 1, << 0 >>) /\ NoEngine /\ NoUploads /\ NoSessions

NextSessions ==
    \/ \E session_id \in SessionIdChoices : CreateSession(session_id)
    \/ \E session_id \in SessionIdChoices : AddMessageToContext(session_id)
    \/ \E session_id \in SessionIdChoices : ProcessChatMessageRemote(session_id)
    \/ \E session_id \in SessionIdChoices : CleanupSession(session_id)

SpecSessions == InitSessions /\ [][NextSessions]_vars

\* a rule handed to add_custom_rule under the id of a default rule
RedefinedRule ==
    Rule("safety_001", "Relaxed Safety", "safety_investigation",
         "safety_violation", "low", Pct(50))

RuleOpChoices == CustomRuleChoices \cup { RedefinedRule }

RuleOpIdChoices == RuleIdChoices \cup { "custom_001", "comp_001" }

\* The engine under add_custom_rule, enable_rule and disable_rule only.
NextRuleOps ==
    \/ \E rule \in RuleOpChoices : AddCustomRule(rule)
    \/ \E rule_id \in RuleOpIdChoices : EnableRule(rule_id)
    \/ \E rule_id \in RuleOpIdChoices : DisableRule(rule_id)

SpecRuleOps == InitRules /\ [][NextRuleOps]_vars

(***************************************************************************)
(* Claims about the window loop (checked under SpecSeg).                   *)
(***************************************************************************)
IsPrefix(s, t) == Len(s) <= Len(t) /\ \A i \in 1 .. Len(s) : s[i] = t[i]

\* C1: for duration > 0 and 0 < overlap < window_size the window loop ends
\* with a finite list whose last window ends at duration: the window that
\* ends at duration is the last one emitted, and once the loop has ended the
\* list is not empty and its last window ends at duration.
C1_SegmenterTerminates ==
    (duration > 0 /\ 0 < overlap /\ overlap < window_size) =>
        /\ \A i \in 1 .. Len(windows) - 1 : windows[i].end_time < duration
        /\ pc # "windows" =>
              /\ Len(windows) > 0
              /\ windows[Len(windows)].end_time = duration

\* C2: with overlap >= window_size the window calculation fails before any
\* window is emitted or submitted.
C2_InvalidOverlapRejected ==
    overlap >= window_size => (windows = << >> /\ pc = "windows")

ExpectedWindows62 ==
    << Window(0, 0, 20), Window(1, 18, 38), Window(2, 36, 56), Window(3, 54, 62) >>

\* C3: for duration 62, window_size 20, overlap 2 the windows are exactly
\* [0,20], [18,38], [36,56], [54,62], in that order, and no others.
C3_EndToEndWindows ==
    (duration = 62 /\ window_size = 20 /\ overlap = 2) =>
        /\ IsPrefix(windows, ExpectedWindows62)
        /\ pc # "windows" => windows = ExpectedWindows62

\* C4: for 0 < duration <= window_size and 0 <= overlap < window_size the
\* window calculation yields exactly one window, [0, duration].
C4_SingleWindow ==
    (0 < duration /\ duration <= window_size /\ 0 <= overlap /\ overlap < window_size) =>
        /\ IsPrefix(windows, << Window(0, 0, duration) >>)
        /\ pc # "windows" => windows = << Window(0, 0, duration) >>

RECURSIVE Count(_, _)
\* how many times e occurs in the sequence s
Count(e, s) ==
    IF s = << >> THEN 0
    ELSE (IF Head(s) = e THEN 1 ELSE 0) + Count(e, Tail(s))

RECURSIVE CountInResults(_, _)
\* how many times e occurs in the events of the results res
CountInResults(e, res) ==
    IF res = << >> THEN 0
    ELSE Count(e, Head(res).events) + CountInResults(e, Tail(res))

RECURSIVE TotalEvents(_)
TotalEvents(res) ==
    IF res = << >> THEN 0 ELSE Len(Head(res).events) + TotalEvents(Tail(res))

EventsOf(res) == UNION { { r.events[k] : k \in 1 .. Len(r.events) } :
                         r \in { res[i] : i \in 1 .. Len(res) } }

\* C6: the combined list is the multiset union of the events of all window
\* results: its length is the sum of the per-window event counts and every
\* event occurs in it as often as in all results together (no event dropped,
\* none deduplicated).  Checked under SpecAgg.
C6_AggregateConserves ==
    pc = "done" =>
        /\ Len(all_events) = TotalEvents(results)
        /\ \A e \in EventsOf(results) \cup { all_events[k] : k \in 1 .. Len(all_events) } :
              Count(e, all_events) = CountInResults(e, results)

\* C6 witness: two different results hold the same event, and the combined
\* list holds it twice.
C6_Witness ==
    /\ pc = "done"
    /\ Len(results) = 2
    /\ \E e \in EventsOf(results) :
          /\ Count(e, results[1].events) = 1
          /\ Count(e, results[2].events) = 1
          /\ Count(e, all_events) = 2

(***************************************************************************)
(* Claims about the workers and the gather (checked under Spec).           *)
(***************************************************************************)
ResultsFor(w) == { i \in 1 .. Len(results) : results[i].window_id = w }

\* C7: with any subset of the workers raising, ray.get yields one result per
\* submitted window, the results with error set are exactly those of the
\* windows whose worker raised, and the combined list holds every event of
\* every window that did not raise.
C7_PartialFailureTolerated ==
    /\ pc \in {"combine", "done"} =>
          /\ Len(results) = Len(windows)
          /\ \A w \in WindowIds :
                /\ Cardinality(ResultsFor(w)) = 1
                /\ \A i \in ResultsFor(w) : HasError(results[i]) <=> w \in raised
    /\ pc = "done" =>
          \A w \in WindowIds \ raised :
              \A k \in 1 .. Len(returned[w].events) :
                  Count(returned[w].events[k], all_events)
                      >= Count(returned[w].events[k], returned[w].events)

\* C7 witness: three windows, the second raised, the events of the first and
\* the third are in the combined list.
C7_Witness ==
    /\ pc = "done"
    /\ Len(windows) = 3
    /\ raised = {1}
    /\ returned[0].events # << >>
    /\ returned[2].events # << >>
    /\ Count(returned[0].events[1], all_events) >= 1
    /\ Count(returned[2].events[1], all_events) >= 1

\* C8: a worker that meets an exception returns a result that carries error
\* together with all the events it had accumulated before the failure.
C8_ErrorKeepsAccumulated ==
    \A w \in raised :
        /\ w \in DOMAIN returned
        /\ HasError(returned[w])
        /\ returned[w].events = accumulated[w]

\* C9: ray.get returns only after every submitted window has returned a
\* result; there is one result per submitted window, in the list of results;
\* every window was processed by exactly one call, also when other windows
\* failed; and no window is ever processed twice.
C9_FullBarrier ==
    /\ \A w \in DOMAIN calls : calls[w] = 1
    /\ pc \in {"combine", "done"} =>
          /\ \A w \in WindowIds :
                /\ w \in DOMAIN returned
                /\ w \in DOMAIN calls
                /\ Cardinality(ResultsFor(w)) = 1
          /\ \A p \in Processors : ~running[p].active /\ queue[p] = << >>
          /\ Len(results) = Len(windows)

\* C9 witness: on one actor the first of three windows failed and the two
\* behind it were still processed before ray.get returned.
C9_Witness ==
    /\ pc = "combine"
    /\ NumProcessors = 1
    /\ Len(windows) = 3
    /\ raised = {0}
    /\ ~HasError(returned[1])
    /\ ~HasError(returned[2])

RECURSIVE EventsFrom(_, _, _)
\* the events of the frame loop over frames frame_count .. end_frame - 1 when
\* the frame before frame_count is prev (NoFrame: no earlier frame)
EventsFrom(frame_count, end_frame, prev) ==
    IF frame_count >= end_frame THEN << >>
    ELSE LET frame == video[frame_count + 1]
             sample_rate == SampleRate(prev, frame)
         IN  (IF frame_count % sample_rate = 0
              THEN FrameEvents(frame, frame_count, fps) ELSE << >>)
                 \o EventsFrom(frame_count + 1, end_frame, frame)

\* the result of process_video_window for window w on an actor that has
\* processed nothing before
IsolatedResult(w) ==
    LET win == WindowOf(w)
    IN  SuccessResult(win,
                      EventsFrom(win.start_time * fps, win.end_time * fps, NoFrame),
                      (win.end_time - win.start_time) * fps)

\* C10: the result of a window depends only on the window's own frames: it is
\* the result an actor with no earlier window gives, whatever windows the
\* actor processed before.
C10_WindowIndependent ==
    \A w \in DOMAIN returned :
        ~HasError(returned[w]) => returned[w] = IsolatedResult(w)

(***************************************************************************)
(* Claims about the pool of actors (checked under Spec).                   *)
(***************************************************************************)
\* a call for window w has started and its future has no value yet
InProgress(w) == w \in DOMAIN calls /\ w \notin DOMAIN returned

\* the actor window w was submitted to: processors[i % len(processors)]
ProcessorOf(w) == w % NumProcessors

\* C11: at every moment at most NumProcessors windows are being processed,
\* each actor processes at most one window at a time, and a window that has
\* completed or failed no longer holds its actor, so the windows queued
\* behind it are processed.
C11_BoundedPool ==
    /\ Cardinality({ w \in WindowIds : InProgress(w) }) <= NumProcessors
    /\ \A p \in Processors :
          Cardinality({ w \in WindowIds : InProgress(w) /\ ProcessorOf(w) = p }) <= 1
    /\ \A w \in DOMAIN returned :
          ~(running[ProcessorOf(w)].active /\ running[ProcessorOf(w)].window_id = w)
    /\ \A p \in Processors :
          (queue[p] # << >> /\ \A w \in WindowIds : ProcessorOf(w) = p => ~InProgress(w))
              => ~running[p].active

\* C11 witness: two actors; window 0 failed on actor 0, and window 2, queued
\* behind it, is being processed while actor 1 processes window 1.
C11_Witness ==
    /\ NumProcessors = 2
    /\ Len(windows) = 3
    /\ 0 \in raised
    /\ InProgress(1)
    /\ InProgress(2)
    /\ running[0].active /\ running[0].window_id = 2
    /\ running[1].active /\ running[1].window_id = 1

(***************************************************************************)
(* Claims about the rules engine (checked under SpecRules).                *)
(***************************************************************************)
\* the events of one modality handed to the call
EventsOfModality(modality) ==
    IF modality = "audio" THEN de_args.audio_events ELSE de_args.visual_events

\* the evaluations of the two single-modality loops of the call
SingleEvaluations ==
    { << m, i, k >> : m \in { "visual", "audio" },
                      i \in 1 .. Max(Len(de_args.visual_events),
                                     Len(de_args.audio_events)),
                      k \in 1 .. Len(relevant_rules) }

IsEvaluation(ev) == ev[2] <= Len(EventsOfModality(ev[1]))

\* the number of matches an evaluation appended
MatchesOf(ev) ==
    Cardinality({ j \in 1 .. Len(match_src) : match_src[j] = ev })

\* the rule-specific confidence of an event: the detector confidence of a
\* person, the largest violation, a score, 0 for any other event type
RuleConfidence(event, rule) ==
    LET violations == DetectSafetyViolations(event)
    IN  CASE rule.event_type = "human_presence" ->
               IF Get(event, "object_class", NoneString) = "person"
               THEN Get(event, "confidence", 0) ELSE 0
          [] rule.event_type = "safety_violation" ->
               IF violations = {} THEN 0
               ELSE MaxOf({ v[2] : v \in violations })
          [] rule.event_type = "efficiency_pattern" ->
               CalculateEfficiencyScore(event)
          [] rule.event_type = "behavioral_pattern" ->
               DetectBehavioralPatterns(event)
          [] rule.event_type = "visual_quality" -> AssessVisualQuality(event)
          [] OTHER -> 0

\* C12: an evaluation of a rule against an event that does not raise appends
\* exactly one match when the rule-specific confidence of the event is at
\* least the rule's confidence_threshold, and none when it is below.
C12_ConfidenceGating ==
    de_pc = "returned" =>
        \A ev \in SingleEvaluations :
            (IsEvaluation(ev) /\ ev \notin thrown) =>
                LET event == EventsOfModality(ev[1])[ev[2]]
                    rule == relevant_rules[ev[3]]
                IN  MatchesOf(ev) =
                        IF RuleConfidence(event, rule)
                               >= rule.confidence_threshold
                        THEN 1 ELSE 0

\* a rule of threshold 0.8 met an event of confidence 0.80 and matched once
C12_Witness ==
    /\ de_pc = "returned"
    /\ \E k \in 1 .. Len(relevant_rules) :
          /\ relevant_rules[k].event_type = "human_presence"
          /\ relevant_rules[k].confidence_threshold = Pct(80)
          /\ Len(de_args.visual_events) = 1
          /\ Get(de_args.visual_events[1], "confidence", 0) = Pct(80)
          /\ MatchesOf(<< "visual", 1, k >>) = 1
          /\ matches[CHOOSE j \in 1 .. Len(match_src) :
                         match_src[j] = << "visual", 1, k >>].confidence
                 = Pct(80)

\* the two legs of the emergency pattern
RapidMovement(v) == Get(v, "velocity", 0) > RapidVelocity
WithinWindow(a, v) ==
    Abs(Get(a, "timestamp", 0) - Get(v, "timestamp", 0)) <= AlignmentWindow
ClassifiesAsAlarm(a) == Get(a, "sound_type", "") \in { "alarm", "Fire Alarm" }

\* the matches entry k of relevant_rules produced for visual event i
EmergencyMatches(i, k) ==
    { j \in 1 .. Len(match_src) :
          match_src[j] \in { << "visual", i, k >>, << "multi_modal", i, k >> } }

\* C13: for an emergency_situation rule and a visual event (evaluations that
\* do not raise), no audio event within the alignment window gives no match;
\* rapid movement with an audio event in the window that classifies as alarm
\* gives exactly one match, of modality multi_modal; without one of the two
\* legs there is no match.
C13_MultiModalBothLegs ==
    de_pc = "returned" =>
        \A i \in 1 .. Len(de_args.visual_events) :
        \A k \in 1 .. Len(relevant_rules) :
            (/\ relevant_rules[k].event_type = "emergency_situation"
             /\ << "multi_modal", i, k >> \notin thrown) =>
                LET v == de_args.visual_events[i]
                    audio == de_args.audio_events
                    alarm == \E n \in 1 .. Len(audio) :
                                 /\ WithinWindow(audio[n], v)
                                 /\ ClassifiesAsAlarm(audio[n])
                IN  IF RapidMovement(v) /\ alarm
                    THEN /\ Cardinality(EmergencyMatches(i, k)) = 1
                         /\ \A j \in EmergencyMatches(i, k) :
                               /\ matches[j].evidence.modality = "multi_modal"
                               /\ matches[j].rule_id
                                      = relevant_rules[k].rule_id
                    ELSE EmergencyMatches(i, k) = {}

\* rapid movement at 2 s and a fire alarm at 3 s gave one multi-modal match
C13_Witness ==
    /\ de_pc = "returned"
    /\ Len(de_args.visual_events) = 1 /\ Len(de_args.audio_events) = 1
    /\ RapidMovement(de_args.visual_events[1])
    /\ de_args.visual_events[1].timestamp = 2
    /\ de_args.audio_events[1].timestamp = 3
    /\ \E j \in 1 .. Len(matches) :
          /\ matches[j].evidence.modality = "multi_modal"
          /\ matches[j].event_type = "emergency_situation"
          /\ match_src[j][2] = 1

\* C14: a match of a rule whose event_type is composite has modality
\* multi_modal, and there is no such match when the visual or the audio list
\* is empty, whatever the rule's confidence_threshold.
C14_CompositeNeverSingle ==
    de_pc = "returned" =>
        \A j \in 1 .. Len(matches) :
            matches[j].event_type \in CompositeTypes =>
                /\ matches[j].evidence.modality = "multi_modal"
                /\ de_args.visual_events # << >>
                /\ de_args.audio_events # << >>

\* C15: within one detect_events call no two evaluations are of the same
\* event against the same rule, and one event and one rule give at most one
\* single-modality match, also for a rule that qualifies by analysis_type
\* and by the allowlist of the domain.
C15_AtMostOnce ==
    de_pc = "returned" =>
        /\ \A ev1, ev2 \in SingleEvaluations :
              (/\ IsEvaluation(ev1) /\ IsEvaluation(ev2)
               /\ ev1[1] = ev2[1] /\ ev1[2] = ev2[2]
               /\ relevant_rules[ev1[3]].rule_id
                      = relevant_rules[ev2[3]].rule_id) => ev1 = ev2
        /\ \A j1, j2 \in 1 .. Len(matches) :
              (/\ match_src[j1][1] \in { "visual", "audio" }
               /\ match_src[j1][1] = match_src[j2][1]
               /\ match_src[j1][2] = match_src[j2][2]
               /\ matches[j1].rule_id = matches[j2].rule_id) => j1 = j2

\* every evaluation of the three loops of the call
AllEvaluations ==
    { ev \in SingleEvaluations : IsEvaluation(ev) }
    \cup { << "multi_modal", i, k >> :
               i \in 1 .. Len(de_args.visual_events),
               k \in 1 .. Len(relevant_rules) }

\* what one evaluation yields when it is made alone
Alone(ev) ==
    LET rule == relevant_rules[ev[3]]
    IN  IF ev[1] = "multi_modal"
        THEN LET v == de_args.visual_events[ev[2]]
                 aligned == AlignedAudio(v, de_args.audio_events)
             IN  IF aligned # << >> /\ rule.event_type \in CompositeTypes
                 THEN EvaluateMultiModalRule(v, aligned, rule)
                 ELSE Returned(<< >>)
        ELSE EvaluateRule(EventsOfModality(ev[1])[ev[2]], rule, ev[1])

\* C16: an evaluator that raises is caught for its (event, rule) pair only:
\* the detect_events call does not fail, the pairs recorded as raised are the
\* ones whose evaluator raises, and every other pair yields the matches it
\* yields when evaluated alone.
C16_IsolatedFailure ==
    /\ de_pc # "failed"
    /\ de_pc = "returned" =>
          /\ \A j \in 1 .. Len(match_src) : match_src[j] \in AllEvaluations
          /\ \A ev \in AllEvaluations :
                /\ ev \in thrown <=> Alone(ev).raised
                /\ ev \notin thrown =>
                      /\ MatchesOf(ev) = Len(Alone(ev).match)
                      /\ \A j \in 1 .. Len(match_src) :
                            match_src[j] = ev
                                => matches[j] = Alone(ev).match[1]

\* an evaluation raised and a later evaluation of the same call matched
C16_Witness ==
    /\ de_pc = "returned"
    /\ \E ev \in thrown : \E j \in 1 .. Len(match_src) :
          /\ match_src[j][1] = ev[1]
          /\ match_src[j][2] = ev[2]
          /\ match_src[j][3] > ev[3]

\* C17: a single-modality match emitted for an event of the video pipeline
\* (time field ts) has the event's ts as timestamp, the event's location as
\* location, and the event as the evidence's source.
C17_Provenance ==
    de_pc = "returned" =>
        \A j \in 1 .. Len(matches) :
            match_src[j][1] \in { "visual", "audio" } =>
                LET event == EventsOfModality(match_src[j][1])[match_src[j][2]]
                IN  "ts" \in DOMAIN event =>
                        /\ matches[j].evidence.original_event = event
                        /\ matches[j].location = event.location
                        /\ matches[j].timestamp = event.ts

\* a rule of the rule set the call started with qualifies for the call
QualifiesAtStart(rule) ==
    \/ rule.analysis_type = de_args.analysis_type
    \/ /\ de_args.domain # NoneString
       /\ de_args.domain \in start_domain_rules.keys
       /\ << de_args.domain, rule.event_type >> \in start_domain_rules.ids

\* C18: every match of a detect_events call, single-modality or multi-modal,
\* is for a rule that was enabled when the call started and that has the
\* requested analysis_type or, for a known domain, an event_type of the
\* domain's allowlist; a disabled rule produces no match.
C18_RuleSelection ==
    de_pc = "returned" =>
        \A j \in 1 .. Len(matches) :
            LET k == IndexOf(start_rules, matches[j].rule_id, 1)
            IN  /\ k # 0
                /\ start_rules[k].enabled
                /\ QualifiesAtStart(start_rules[k])

\* a disabled rule that qualifies and whose evaluator would match the visual
\* event of the call produced nothing, while an enabled rule matched
C18_Witness ==
    /\ de_pc = "returned"
    /\ Len(de_args.visual_events) = 1
    /\ matches # << >>
    /\ \E k \in 1 .. Len(start_rules) :
          /\ ~start_rules[k].enabled
          /\ QualifiesAtStart(start_rules[k])
          /\ Len(EvaluateRule(de_args.visual_events[1], start_rules[k],
                              "visual").match) = 1
          /\ \A j \in 1 .. Len(matches) :
                matches[j].rule_id # start_rules[k].rule_id

(***************************************************************************)
(* Claims about concurrent use of the rules engine (checked under          *)
(* SpecRulesConcurrent).                                                   *)
(***************************************************************************)
\* the list a call returns when no operation on the rules overlaps it
MatchesAtStart ==
    RunDetection(de_args.visual_events, de_args.audio_events,
                 SelectByType(start_rules, de_args.analysis_type)
                 \o SelectByDomain(start_rules, start_domain_rules,
                                   de_args.domain)).out

\* C19: a detect_events call overlapped by enable_rule, disable_rule,
\* add_custom_rule or import_rules does not fail and returns what it returns
\* on the rule set it started with.
C19_Snapshot ==
    /\ de_pc # "failed"
    /\ de_pc = "returned" => matches = MatchesAtStart

(***************************************************************************)
(* Claims about process_video (checked under Spec).                        *)
(***************************************************************************)
\* C20: a failure of a window or of the collection of the window results
\* degrades to a partial result: process_video returns and does not raise.
C20_NoRaise == pc # "raised"

\* the windows whose result carries an error
ErroredWindows == { w \in DOMAIN returned : HasError(returned[w]) }

\* C21: when windows errored, process_video returns (the aggregation does
\* not fail) and what it returns carries the ids of the errored windows.
C21_GapVisible ==
    (pc = "completed" /\ ErroredWindows # {}) =>
        /\ "errored_windows" \in DOMAIN ProcessVideoResult
        /\ ProcessVideoResult.errored_windows = ErroredWindows

(***************************************************************************)
(* Claims about the operations on the rules (checked under SpecRuleOps).   *)
(***************************************************************************)
\* C22: a call of enable_rule, disable_rule or add_custom_rule keeps every
\* rule id that was present, and keeps the definition of every rule that
\* was present (enable_rule and disable_rule change the enabled flag only).
C22_NeverDeleted ==
    [][\A k \in 1 .. Len(rules) :
          LET k2 == IndexOf(rules', rules[k].rule_id, 1)
          IN  /\ k2 # 0
              /\ [rules'[k2] EXCEPT !.enabled = rules[k].enabled] = rules[k]]_vars

(***************************************************************************)
(* More claims about the window loop (checked under SpecSeg).              *)
(***************************************************************************)
\* C27: for 0 <= overlap < window_size the windows of the list are numbered
\* 0, 1, 2, ... in order, every window has 0 <= start_time < end_time <=
\* duration, and consecutive windows have strictly increasing start_time
\* with windows[i+1].start_time = windows[i].end_time - overlap.
C27_WindowChaining ==
    (0 <= overlap /\ overlap < window_size) =>
        \A i \in 1 .. Len(windows) :
            /\ windows[i].window_id = i - 1
            /\ 0 <= windows[i].start_time
            /\ windows[i].start_time < windows[i].end_time
            /\ windows[i].end_time <= duration
            /\ i < Len(windows) =>
                  /\ windows[i + 1].start_time
                         = windows[i].end_time - overlap
                  /\ windows[i].start_time < windows[i + 1].start_time

(***************************************************************************)
(* Claims about the frames of a window (checked under Spec).               *)
(***************************************************************************)
\* rounding of a / b to the nearest integer, for a >= 0 and b > 0
RoundDiv(a, b) == (2 * a + b) \div (2 * b)

\* the stride that a conversion against the native fps of the source gives
\* for a frame, the first frame of a window having no previous frame
NativeStride(p) ==
    LET r == running[p]
        win == WindowOf(r.window_id)
        frame == video[r.frame_count + 1]
        first == r.frame_count = win.start_time * fps
        motion == ~first /\ Abs(frame - prev_frame[p]) > MotionThreshold
        chosen_fps == IF motion THEN motion_fps ELSE global_fps
    IN  Max(1, RoundDiv(fps, chosen_fps))

\* a processor that is about to decode a frame of its window
Decoding(p) ==
    /\ running[p].active
    /\ running[p].frame_count < WindowOf(running[p].window_id).end_time * fps

\* C28: the stride picked for each decoded frame is
\* max(1, round(native_fps / chosen_fps)), where chosen_fps is motion_fps
\* when the motion against the previous frame of the window exceeds the
\* threshold and global_fps otherwise (always global_fps for the first frame
\* of a window).
C28_SamplingStride ==
    \A p \in Processors :
        Decoding(p) =>
            SampleRate(prev_frame[p], video[running[p].frame_count + 1])
                = NativeStride(p)

(***************************************************************************)
(* Claims about the events of a window (checked under SpecFrames).         *)
(***************************************************************************)
\* the results of the calls that returned from the try block
WindowResults == { returned[w] : w \in { x \in DOMAIN returned : ~HasError(returned[x]) } }

\* C29: every event of a window's result has its ts, counted in frame
\* periods, at a frame of that window: start_frame <= ts < end_frame, hence
\* within [start_time, end_time] of the window.
C29_EventTimeBound ==
    \A res \in WindowResults :
        \A i \in 1 .. Len(res.events) :
            /\ res.start_time * fps <= res.events[i].ts
            /\ res.events[i].ts < res.end_time * fps

\* a window that does not start at 0 returned an event of its last frame
C29_Witness ==
    \E res \in WindowResults :
        /\ res.start_time > 0
        /\ \E i \in 1 .. Len(res.events) : res.events[i].ts = res.end_time * fps - 1

\* C30: in the events of any one window result the ts never decreases from
\* an event to the next.
C30_PerWindowOrdering ==
    \A res \in WindowResults :
        \A i \in 1 .. Len(res.events) - 1 :
            res.events[i].ts <= res.events[i + 1].ts

\* a window returned events of two different frames, a frame in between
\* having been skipped or having held no object
C30_Witness ==
    \E res \in WindowResults :
        \E i \in 1 .. Len(res.events) - 1 :
            res.events[i].ts + 1 < res.events[i + 1].ts

(***************************************************************************)
(* Claims about the upload routes (checked under SpecUploads, the last     *)
(* under SpecUploadsSequential).                                           *)
(***************************************************************************)
\* the bytes of a list of ranges
BytesOf(ranges) ==
    { b \in 0 .. MaxContentLength : \E i \in 1 .. Len(ranges) :
          ranges[i][1] <= b /\ b <= ranges[i][2] }

\* the bytes of a file of the size given to init_upload
WholeFile(upload_id) == 0 .. state_files[upload_id].total_size - 1

\* an upload that was initialised and neither cancelled nor completed
Open(upload_id) ==
    /\ upload_id \in DOMAIN state_files
    /\ upload_id \notin cancelled
    /\ upload_id \notin DOMAIN final_files

\* C23: complete_upload answers 200 and moves the temp file to the final
\* path only if the received ranges cover every byte 0 .. total_size - 1;
\* if they do not, it answers 409 and leaves the state and the temp file as
\* they were; and after chunk PUTs that were answered 200 and together
\* cover the whole file, complete_upload answers 200.
C23_CompletionGating ==
    [][\A upload_id \in UploadIdChoices :
          CompleteUpload(upload_id) =>
              LET state == LoadState(upload_id)
              IN  /\ response'.status = 200 =>
                        /\ state # NoState
                        /\ BytesOf(state.received_ranges)
                               = 0 .. state.total_size - 1
                        /\ upload_id \in DOMAIN final_files'
                        /\ upload_id \notin DOMAIN temp_files'
                  /\ (state # NoState /\ BytesOf(state.received_ranges)
                                             # 0 .. state.total_size - 1) =>
                        /\ response'.status = 409
                        /\ UNCHANGED << state_files, temp_files, final_files >>
                  /\ (Open(upload_id) /\ accepted[upload_id] = WholeFile(upload_id)) =>
                        response'.status = 200]_vars

\* a list of ranges that is sorted, with a gap between consecutive ranges
Canonical(ranges) ==
    /\ \A i \in 1 .. Len(ranges) : ranges[i][1] <= ranges[i][2]
    /\ \A i \in 1 .. Len(ranges) - 1 : ranges[i][2] + 1 < ranges[i + 1][1]

\* C24: whatever chunks were answered 200, and in whatever order, the
\* stored received_ranges of an upload is the sorted list of disjoint,
\* non-adjacent ranges that covers exactly the bytes of those chunks, and
\* is_complete is true exactly when they are all the bytes of the file.
C24_RangesAreUnion ==
    \A upload_id \in UploadIds :
        Open(upload_id) =>
            LET state == state_files[upload_id]
            IN  /\ Canonical(state.received_ranges)
                /\ BytesOf(state.received_ranges) = accepted[upload_id]
                /\ IsCompleteUpload(state.received_ranges, state.total_size)
                       <=> accepted[upload_id] = WholeFile(upload_id)

\* C25: once cancel_upload has answered 200 for an upload_id, its state file
\* and its temp file are gone, and every request for it that arrives later
\* (status, chunk, complete or cancel) is answered 404.
C25_CancelledIsGone ==
    [][/\ \A upload_id \in cancelled' :
             /\ upload_id \notin DOMAIN state_files'
             /\ upload_id \notin DOMAIN temp_files'
       /\ \A upload_id \in cancelled :
             (\/ UploadStatus(upload_id)
              \/ CompleteUpload(upload_id)
              \/ CancelUpload(upload_id)
              \/ \E header \in HeaderChoices : UploadChunkReceive(upload_id, header))
                 => /\ response'.status = 404
                    /\ in_flight' = in_flight]_vars

\* the codes with which upload_chunk rejects a request
RejectionCodes == { 404, 411, 400, 409 }

\* C26: a chunk PUT that is answered 404, 411, 400 or 409 is served no
\* further and leaves the state, hence received_ranges and the reported
\* progress, of every upload and every temp file as they were; 404 is the
\* answer for an unknown upload_id only; and a chunk PUT that is served has
\* a known upload_id and a range with start <= end < total, total being the
\* initialised size.
C26_RejectedChunkNoChange ==
    [][/\ (/\ response' # response
           /\ response'.op = "chunk"
           /\ response'.status \in RejectionCodes) =>
              /\ in_flight' = in_flight
              /\ state_files' = state_files
              /\ temp_files' = temp_files
              /\ \A u \in DOMAIN state_files :
                    Progress(state_files'[u]) = Progress(state_files[u])
              /\ response'.status = 404
                    <=> response'.upload_id \notin DOMAIN state_files
       /\ \A r \in in_flight' \ in_flight :
              /\ r.upload_id \in DOMAIN state_files
              /\ r.start <= r.end
              /\ r.end < r.total
              /\ r.total = state_files[r.upload_id].total_size]_vars

\* a chunk with the wrong total was answered 409 for an upload that has
\* received a part of its bytes
C26_Witness ==
    /\ response.op = "chunk"
    /\ response.status = 409
    /\ response.upload_id \in DOMAIN state_files
    /\ state_files[response.upload_id].received_ranges # << >>
    /\ Progress(state_files[response.upload_id]) \in 1 .. 99

(***************************************************************************)
(* Claims about multi-modal detection (checked under SpecMultiModal).      *)
(***************************************************************************)
\* the events of a list that carry their time under the key ts
WithTs(events) == { i \in 1 .. Len(events) : "ts" \in DOMAIN events[i] }

\* event a is one of the audio events aligned with the visual event v
InAligned(a, v, audio_events) ==
    \E n \in 1 .. Len(AlignedAudio(v, audio_events)) :
        AlignedAudio(v, audio_events)[n] = a

\* C31: for a visual event with ts = t of a call, an audio event of the call
\* is in the aligned set exactly when |audio.ts - t| <= alignment_window.
C31_TemporalAlignment ==
    de_pc = "returned" =>
        \A i \in WithTs(de_args.visual_events) :
        \A j \in WithTs(de_args.audio_events) :
            LET v == de_args.visual_events[i]
                a == de_args.audio_events[j]
            IN  InAligned(a, v, de_args.audio_events)
                    <=> Abs(a.ts - v.ts) <= AlignmentWindow

\* the multi-modal matches of the call for visual event i and the rule rule_id
CompositeMatches(i, rule_id) ==
    { j \in 1 .. Len(matches) :
          /\ match_src[j][1] = "multi_modal"
          /\ match_src[j][2] = i
          /\ matches[j].rule_id = rule_id }

\* the joint predicate of the emergency pattern for visual event v
JointPredicate(v, audio_events) ==
    /\ RapidMovement(v)
    /\ \E n \in 1 .. Len(audio_events) :
          /\ InAligned(audio_events[n], v, audio_events)
          /\ ClassifiesAsAlarm(audio_events[n])

TracksAt(ts) == TrackObjects(DetectObjects(video[ts + 1]), ts, fps)

\* C33: every event of a window's result is the event of exactly one track
\* of the frame at its ts: type "object_detection", actor.track_id the id of
\* the track, attributes.confidence the confidence the detector reported for
\* that detection; and no track of that frame has two events.
C33_TrackToEvent ==
    \A res \in WindowResults :
        \A i \in 1 .. Len(res.events) :
            LET e == res.events[i]
                detections == DetectObjects(video[e.ts + 1])
            IN  /\ e.type = "object_detection"
                /\ \E n \in 1 .. Len(detections) :
                      /\ e.actor.track_id = TracksAt(e.ts)[n].track_id
                      /\ e.attributes.confidence = detections[n].confidence
                /\ \A j \in 1 .. Len(res.events) :
                      (/\ res.events[j].ts = e.ts
                       /\ res.events[j].actor.track_id = e.actor.track_id) => j = i

\* C35: a call of process_video_window that returns a result without error
\* had no failure of the detector or tracker on any of its sampled frames.
C35_FailuresReported ==
    [][\A p \in Processors :
          (/\ running[p].active
           /\ ~running'[p].active
           /\ running[p].window_id \in DOMAIN returned'
           /\ ~HasError(returned'[running[p].window_id]))
              => ~running[p].inference_failed]_vars

(***************************************************************************)
(* Claims about submission and gathering (checked under Spec).             *)
(***************************************************************************)
\* the actor that the i-th submitted window (i from 0) is sent to
ActorOf(i) == i % NumProcessors

\* the calls for the windows have been submitted
Submitted == pc \in { "collect", "combine", "done" }

\* C34: the i-th window is submitted to actor i mod pool size, in the order
\* of the list; of two windows of one actor the later one starts only when
\* the earlier one has returned; and the gathered list has one result per
\* window with result k being the result of window k.
C34_SubmissionOrder ==
    /\ Submitted =>
          \A p \in Processors :
              /\ \A n \in 1 .. Len(queue[p]) : ActorOf(queue[p][n]) = p
              /\ \A n \in 1 .. Len(queue[p]) - 1 : queue[p][n] < queue[p][n + 1]
              /\ \A n \in 1 .. Len(queue[p]) :
                    running[p].active => running[p].window_id < queue[p][n]
    /\ \A i, j \in 1 .. Len(windows) :
          (/\ i < j
           /\ ActorOf(i - 1) = ActorOf(j - 1)
           /\ windows[j].window_id \in DOMAIN calls)
              => windows[i].window_id \in DOMAIN returned
    /\ pc \in { "combine", "done" } =>
          /\ Len(results) = Len(windows)
          /\ \A k \in 1 .. Len(windows) :
                results[k].window_id = windows[k].window_id

\* three windows on two actors were gathered, the second actor's window
\* next to the two windows of the first
C34_Witness ==
    /\ pc \in { "combine", "done" }
    /\ NumProcessors = 2
    /\ Len(results) = 3
    /\ results[2].window_id = 1

(***************************************************************************)
(* Claims about export_rules and import_rules (checked under SpecRuleOps). *)
(***************************************************************************)
\* C37: for every rule table reached by add_custom_rule, enable_rule and
\* disable_rule, import_rules(export_rules()) gives the same rules, in the
\* same order with the same fields, enabled included, and the same
\* domain_rules, hence the same results of detect_events.
C37_ExportImportRoundTrip ==
    /\ ImportedRules(ExportRules(rules, domain_rules)) = rules
    /\ ImportedDomainRules(ExportRules(rules, domain_rules)) = domain_rules

\* a table with a custom rule, a redefined default rule and a disabled rule
C37_Witness ==
    /\ \E k \in 1 .. Len(rules) : rules[k].rule_id \notin
              { DefaultRules[n].rule_id : n \in 1 .. Len(DefaultRules) }
    /\ \E k \in 1 .. Len(rules) : rules[k] = RedefinedRule
    /\ \E k \in 1 .. Len(rules) : ~rules[k].enabled

(***************************************************************************)
(* Claims about the bodies of the chunks (checked under SpecUploadBodies). *)
(***************************************************************************)
\* C38: every byte of the received_ranges of an upload was written to its
\* temp file from the body of a chunk, and every byte of a file that
\* complete_upload moved to its final path was supplied by a chunk.
C38_CoverageIsWritten ==
    /\ \A upload_id \in DOMAIN state_files \cap DOMAIN temp_files :
          BytesOf(state_files[upload_id].received_ranges) \subseteq written[upload_id]
    /\ \A upload_id \in DOMAIN final_files :
          0 .. final_files[upload_id] - 1 \subseteq written[upload_id]


(***************************************************************************)
(* Claims about chunk requests in flight together (checked under           *)
(* SpecUploads).                                                           *)
(***************************************************************************)
\* C39: when a chunk request of an upload is answered 200, the stored
\* received_ranges covers its range and every range that was stored before,
\* among them the ranges of the requests that were in flight with it.
C39_NoLostChunk ==
    [][\A r \in in_flight \ in_flight' :
          (/\ r.upload_id \in DOMAIN state_files
           /\ r.upload_id \in DOMAIN state_files')
              => (BytesOf(state_files[r.upload_id].received_ranges)
                      \cup (r.start .. r.end))
                     \subseteq BytesOf(state_files'[r.upload_id].received_ranges)]_vars

(***************************************************************************)
(* Claims about the session context (checked under SpecSessions).          *)
(***************************************************************************)
\* C40: the stored context of a session holds at most max_context_length
\* entries, and they are the most recent exchanges recorded on the session,
\* in their order, by whichever path they were recorded.
C40_ContextBound ==
    \A session_id \in DOMAIN session_store :
        LET context == session_store[session_id].context
            recorded == exchanges[session_id]
            n == Len(context)
        IN  /\ n <= MaxContextLength
            /\ n = Min(Len(recorded), MaxContextLength)
            /\ \A i \in 1 .. n : context[i] = recorded[Len(recorded) - n + i]
====
